---- MODULE Spec2Model ----
(***************************************************************************)
(* A model of eta.core.events: the VideoEvent / DetectedEvent label model  *)
(* and the VideoEventFrameRenderer, with the schemas EventSchema and       *)
(* EventContainerSchema.                                                   *)
(*                                                                         *)
(* Python objects live in a heap (id -> value) so that aliasing is         *)
(* visible: `add_detection` stores the caller's instance, `deepcopy`       *)
(* allocates new instances.  Containers (AttributeContainer,               *)
(* DetectedObjectContainer) are sequences of ids held by their owner.      *)
(* An optional value is <<>> (None) or <<v>>.                              *)
(***************************************************************************)
EXTENDS Integers, Sequences, FiniteSets, TLC

VARIABLES ev, heap, ret, op, steps, schema

vars == <<ev, heap, ret, op, steps, schema>>

----------------------------------------------------------------------------
(* Bounds *)

MaxFrame == 2
MaxSteps == 2
MaxLen == 3

Frames == 1..MaxFrame

----------------------------------------------------------------------------
(* Optional values *)

None == <<>>
Some(x) == <<x>>
Val(o) == o[1]
FrameOpt == {None} \cup {Some(f) : f \in Frames}

(* Object identities: <<kind, frame, k>> *)
NoId == <<"none", 0, 0>>
AttrId(k) == <<"A", 0, k>>
DObjId(k) == <<"O", 0, k>>
DEventId(k) == <<"D", 0, k>>
FrameId(f) == <<"F", f, 0>>

AttrPool == {AttrId(1), AttrId(2)}
DObjPool == {DObjId(1), DObjId(2)}
DEventPool == {DEventId(1), DEventId(2)}
PoolIds == AttrPool \cup DObjPool \cup DEventPool

(* Temporal objects (VideoObject) are values: a label and a support *)
VideoObjects ==
    {[label |-> "v", support |-> {1}], [label |-> "w", support |-> Frames]}

Uuids == {"u1", "u2"}
UuidOpt == {None} \cup {Some(u) : u \in Uuids}

----------------------------------------------------------------------------
(* Helpers on functions and sequences *)

Put(h, id, v) == [x \in DOMAIN h \cup {id} |-> IF x = id THEN v ELSE h[x]]

Restrict(h, S) == [x \in DOMAIN h \cap S |-> h[x]]

Range(s) == {s[i] : i \in DOMAIN s}

Min(S) == CHOOSE x \in S : \A y \in S : x <= y

----------------------------------------------------------------------------
(* DetectedEvent *)

(* DetectedEvent.__init__ with only frame_number given *)
NewDetectedEvent(frame_number) ==
    [label |-> None, confidence |-> None, index |-> None,
     frame_number |-> frame_number, attrs |-> <<>>, objects |-> <<>>]

(* VideoEvent.__init__ *)
NewVideoEvent(label, confidence, support, index, uuid, frames) ==
    [label |-> label, confidence |-> confidence, index |-> index,
     uuid |-> uuid, attrs |-> <<>>, objects |-> <<>>, frames |-> frames,
     child_objects |-> {}, child_events |-> {}, support |-> support]

(* A machine state threaded through the helpers of one handler *)
St(e, h, err) == [ev |-> e, heap |-> h, err |-> err]

(* An _ensure_frame that always starts a new record *)
_ensure_frame_new(s, frame_number) ==
    [s EXCEPT
        !.ev.frames = Put(@, frame_number, FrameId(frame_number)),
        !.heap = Put(@, FrameId(frame_number),
                     NewDetectedEvent(Some(frame_number)))]

(* VideoEvent._ensure_frame *)
_ensure_frame(s, frame_number) ==
    IF frame_number \in DOMAIN s.ev.frames
    THEN s
    ELSE [s EXCEPT
            !.ev.frames = Put(@, frame_number, FrameId(frame_number)),
            !.heap = Put(@, FrameId(frame_number),
                         NewDetectedEvent(Some(frame_number)))]

(* VideoEvent._add_detected_object *)
_add_detected_object(s, obj, frame_number) ==
    IF frame_number = None /\ s.heap[obj].frame_number = None
    THEN [s EXCEPT !.err = "ValueError"]
    ELSE LET fn == IF frame_number = None
                   THEN s.heap[obj].frame_number ELSE frame_number
             s1 == [s EXCEPT !.heap[obj].frame_number = fn]
             s2 == _ensure_frame(s1, Val(fn))
         IN  [s2 EXCEPT !.heap[s2.ev.frames[Val(fn)]].objects = Append(@, obj)]

(* VideoEvent._add_detected_objects *)
RECURSIVE _add_detected_objects(_, _, _)
_add_detected_objects(s, objects, frame_number) ==
    IF objects = <<>>
    THEN s
    ELSE LET s1 == _add_detected_object(s, Head(objects), frame_number)
         IN  IF s1.err # "none"
             THEN s1
             ELSE _add_detected_objects(s1, Tail(objects), frame_number)

(* An _add_detected_event in which the record's own frame number wins *)
_add_detected_event_own(s, event, frame_number, clean) ==
    IF frame_number = None /\ s.heap[event].frame_number = None
    THEN [s EXCEPT !.err = "ValueError"]
    ELSE LET fn == IF s.heap[event].frame_number # None
                   THEN s.heap[event].frame_number ELSE frame_number
             s1 == IF clean
                   THEN [s EXCEPT !.heap[event].label = None,
                                  !.heap[event].index = None]
                   ELSE s
         IN  [s1 EXCEPT !.heap[event].frame_number = fn,
                        !.ev.frames = Put(@, Val(fn), event)]

(* VideoEvent._add_detected_event *)
_add_detected_event(s, event, frame_number, clean) ==
    IF frame_number = None /\ s.heap[event].frame_number = None
    THEN [s EXCEPT !.err = "ValueError"]
    ELSE LET fn == IF frame_number = None
                   THEN s.heap[event].frame_number ELSE frame_number
             s1 == IF clean
                   THEN [s EXCEPT !.heap[event].label = None,
                                  !.heap[event].index = None]
                   ELSE s
         IN  [s1 EXCEPT !.heap[event].frame_number = fn,
                        !.ev.frames = Put(@, Val(fn), event)]

(* VideoEvent._add_detected_events *)
RECURSIVE _add_detected_events(_, _, _)
_add_detected_events(s, events, clean) ==
    IF events = <<>>
    THEN s
    ELSE LET s1 == _add_detected_event(s, Head(events), None, clean)
         IN  IF s1.err # "none"
             THEN s1
             ELSE _add_detected_events(s1, Tail(events), clean)

----------------------------------------------------------------------------
(* Support *)

(* A support computed from the stored frames only *)
_compute_support_frames(e) == DOMAIN e.frames

(* VideoEvent._compute_support *)
_compute_support(e) ==
    DOMAIN e.frames \cup UNION {e.objects[i].support : i \in DOMAIN e.objects}

(* HasLabelsSupport.is_support_frozen *)
is_support_frozen(e) == e.support # None

(* HasLabelsSupport.support *)
support(e) ==
    IF is_support_frozen(e) THEN Val(e.support) ELSE _compute_support(e)

----------------------------------------------------------------------------
(* Frame rendering *)

RecordId(f) == <<"RD", f, 0>>
RAttrId(f, id) == <<"RA", f, id[3]>>
RObjId(f, id) == <<"RO", f, id[3]>>
EAttrId(id) == <<"EA", 0, id[3]>>
VObjId(f, j) == <<"VO", f, j>>

(* A rendering that hands out the stored DetectedEvent itself *)
(* A copy of a record that leaves its objects behind *)
deepcopy_event_bare(h, id, f) ==
    [heap |-> Put(h, RecordId(f), [h[id] EXCEPT !.objects = <<>>]),
     id |-> RecordId(f)]

deepcopy_event_alias(h, id, f) == [heap |-> h, id |-> id]

(* copy.deepcopy of a DetectedEvent, as used to render frame f *)
deepcopy_event(h, id, f) ==
    LET src == h[id]
        attrs == [i \in DOMAIN src.attrs |-> RAttrId(f, src.attrs[i])]
        objects == [i \in DOMAIN src.objects |-> RObjId(f, src.objects[i])]
        h1 == [x \in DOMAIN h \cup Range(attrs) \cup Range(objects) |->
                 IF \E i \in DOMAIN attrs : attrs[i] = x
                 THEN h[src.attrs[CHOOSE i \in DOMAIN attrs : attrs[i] = x]]
                 ELSE IF \E i \in DOMAIN objects : objects[i] = x
                 THEN h[src.objects[
                          CHOOSE i \in DOMAIN objects : objects[i] = x]]
                 ELSE h[x]]
    IN  [heap |-> Put(h1, RecordId(f),
                      [src EXCEPT !.attrs = attrs, !.objects = objects]),
         id |-> RecordId(f)]

(* copy.deepcopy of the event-level AttributeContainer *)
deepcopy_attrs(h, attrs) ==
    LET new == [i \in DOMAIN attrs |-> EAttrId(attrs[i])]
    IN  [heap |-> [x \in DOMAIN h \cup Range(new) |->
                     IF \E i \in DOMAIN new : new[i] = x
                     THEN h[attrs[CHOOSE i \in DOMAIN new : new[i] = x]]
                     ELSE h[x]],
         ids |-> new]

(* VideoEventFrameRenderer._get_event_attrs *)
_get_event_attrs(e, h) ==
    IF e.attrs = <<>>
    THEN [heap |-> h, attrs |-> None]
    ELSE LET c == deepcopy_attrs(h, e.attrs)
         IN  [heap |-> c.heap, attrs |-> Some(c.ids)]

(* Container.prepend_container *)
prepend_container(elements, container) == container \o elements

(* Container.add_container *)
add_container(elements, container) == elements \o container

(* VideoObjectContainerFrameRenderer.render_frame: the objects whose      *)
(* support holds f, in container order, each as a new DetectedObject      *)
RECURSIVE ObjectIndicesAt(_, _, _)
ObjectIndicesAt(objects, f, j) ==
    IF j > Len(objects)
    THEN <<>>
    ELSE (IF f \in objects[j].support THEN <<j>> ELSE <<>>)
            \o ObjectIndicesAt(objects, f, j + 1)

render_object_frame(objects, f) ==
    LET js == ObjectIndicesAt(objects, f, 1)
    IN  [i \in DOMAIN js |->
           [id |-> VObjId(f, js[i]),
            value |-> [label |-> objects[js[i]].label,
                       frame_number |-> Some(f)]]]

(* VideoObjectContainerFrameRenderer.render_all_frames *)
render_all_object_frames(objects) ==
    [f \in UNION {objects[j].support : j \in DOMAIN objects} |->
        render_object_frame(objects, f)]

(* A renderer that forgets the temporal objects of a single frame *)
_render_object_frame_none(e, frame_number) == None

(* VideoEventFrameRenderer._render_object_frame *)
_render_object_frame(e, frame_number) ==
    IF e.objects = <<>>
    THEN None
    ELSE Some(render_object_frame(e.objects, frame_number))

(* VideoEventFrameRenderer._render_all_object_frames *)
_render_all_object_frames(e) ==
    IF e.objects = <<>> THEN <<>> ELSE render_all_object_frames(e.objects)

(* dict.get(frame_number, None) *)
Get(map, k) == IF k \in DOMAIN map THEN Some(map[k]) ELSE None

(* An inheritance in which the stored per-frame value wins *)
InheritOwn(event_value, own_value) ==
    IF own_value # None THEN own_value ELSE event_value

(* The inherited value of label / confidence / index *)
Inherit(event_value, own_value) ==
    IF event_value # None THEN event_value ELSE own_value

(* A rendering that puts the event-level attributes last *)
RenderEventAttributesLast(h, devent, event_attrs) ==
    IF event_attrs # None
    THEN [h EXCEPT ![devent].attrs = add_container(@, Val(event_attrs))]
    ELSE h

(* VideoEventFrameRenderer._render_frame, "Render event-level attributes" *)
RenderEventAttributes(h, devent, event_attrs) ==
    IF event_attrs # None
    THEN [h EXCEPT ![devent].attrs = prepend_container(@, Val(event_attrs))]
    ELSE h

(* VideoEventFrameRenderer._render_frame *)
_render_frame(e, h, frame_number, event_attrs, dobjs) ==
    LET base == IF frame_number \in DOMAIN e.frames
                THEN deepcopy_event(h, e.frames[frame_number], frame_number)
                ELSE [heap |-> Put(h, RecordId(frame_number),
                                   NewDetectedEvent(Some(frame_number))),
                      id |-> RecordId(frame_number)]
        devent == base.id
        h1 == RenderEventAttributes(base.heap, devent, event_attrs)
        new == IF dobjs # None THEN Val(dobjs) ELSE <<>>
        h2 == [x \in DOMAIN h1 \cup {new[i].id : i \in DOMAIN new} |->
                 IF \E i \in DOMAIN new : new[i].id = x
                 THEN new[CHOOSE i \in DOMAIN new : new[i].id = x].value
                 ELSE h1[x]]
        h3 == [h2 EXCEPT ![devent].objects =
                 add_container(@, [i \in DOMAIN new |-> new[i].id])]
    IN  [heap |-> [h3 EXCEPT
                     ![devent].label = Inherit(e.label, @),
                     ![devent].confidence = Inherit(e.confidence, @),
                     ![devent].index = Inherit(e.index, @)],
         id |-> devent]

(* The loop of VideoEventFrameRenderer.render_all_frames over the frames   *)
(* still to render, in ascending order                                     *)
RECURSIVE RenderFrames(_, _, _, _, _, _)
RenderFrames(e, h, todo, event_attrs, dobjs_map, devents_map) ==
    IF todo = {}
    THEN [heap |-> h, map |-> devents_map]
    ELSE LET frame_number == Min(todo)
             r == _render_frame(e, h, frame_number, event_attrs,
                                Get(dobjs_map, frame_number))
         IN  RenderFrames(e, r.heap, todo \ {frame_number}, event_attrs,
                          dobjs_map, Put(devents_map, frame_number, r.id))

(* A rendering of the frames that have a stored record only *)
render_all_frames_stored(e, h) ==
    LET a == _get_event_attrs(e, h)
    IN  RenderFrames(e, a.heap, DOMAIN e.frames, a.attrs,
                     _render_all_object_frames(e), <<>>)

(* VideoEventFrameRenderer.render_all_frames *)
render_all_frames(e, h) ==
    LET a == _get_event_attrs(e, h)
    IN  RenderFrames(e, a.heap, support(e), a.attrs,
                     _render_all_object_frames(e), <<>>)

(* VideoEventFrameRenderer.render_frame; id is NoId for a None result *)
render_frame(e, h, frame_number) ==
    IF frame_number \notin support(e)
    THEN [heap |-> h, id |-> NoId]
    ELSE LET a == _get_event_attrs(e, h)
         IN  _render_frame(e, a.heap, frame_number, a.attrs,
                           _render_object_frame(e, frame_number))

----------------------------------------------------------------------------
(* The call in progress: what was called, with what, and how it ended *)

NoArgs ==
    [name |-> "init", err |-> "none", frame_number |-> None, id |-> NoId,
     ids |-> <<>>, clean |-> FALSE, uuid |-> None, vobjs |-> <<>>,
     schema |-> None, allow_none_label |-> FALSE, method |-> "",
     label |-> None, arg |-> None, reverse |-> FALSE]

NoRet ==
    [kind |-> "none", frames |-> <<>>, rec |-> NoId, event |-> None,
     changed |-> FALSE, value |-> None]

IsRecordId(x) == x[1] \in {"D", "F", "RD"}

(* The instances the caller still holds after a call that returned r *)
ReturnedRecords(r) ==
    Range(r.frames) \cup (IF r.rec # NoId THEN {r.rec} ELSE {})

(* Garbage collection: what is reachable from the event, from the value    *)
(* returned to the caller and from the instances the caller created        *)
Collect(e, h, r) ==
    LET roots == PoolIds \cup Range(e.attrs) \cup Range(e.frames)
                    \cup ReturnedRecords(r)
        recs == {x \in roots : IsRecordId(x)}
    IN  Restrict(h, roots \cup UNION {Range(h[x].attrs) \cup
                                       Range(h[x].objects) : x \in recs})

Complete(s, r, call) ==
    /\ ev' = s.ev
    /\ heap' = Collect(s.ev, s.heap, r)
    /\ ret' = IF s.err = "none" THEN r ELSE NoRet
    /\ op' = [call EXCEPT !.err = s.err]
    /\ UNCHANGED schema

(* A call that changes the event counts towards MaxSteps *)
Return(s, r, call) ==
    /\ steps < MaxSteps
    /\ steps' = steps + 1
    /\ Complete(s, r, call)

(* A rendering call, made once on the event as it stands *)
Rendering(s, r, call) ==
    /\ ret.kind = "none"
    /\ Complete(s, r, call)
    /\ UNCHANGED steps

Here == St(ev, heap, "none")

----------------------------------------------------------------------------
(* VideoEvent operations *)

(* VideoEvent.add_event_attribute *)
add_event_attribute ==
    \E attr \in AttrPool :
        Return([Here EXCEPT !.ev.attrs = Append(@, attr)], NoRet,
               [NoArgs EXCEPT !.name = "add_event_attribute", !.id = attr])

(* VideoEvent.add_frame_attribute *)
add_frame_attribute ==
    \E attr \in AttrPool, frame_number \in Frames :
        LET s == _ensure_frame(Here, frame_number)
        IN  Return([s EXCEPT !.heap[s.ev.frames[frame_number]].attrs =
                                Append(@, attr)],
                   NoRet,
                   [NoArgs EXCEPT !.name = "add_frame_attribute",
                                  !.id = attr,
                                  !.frame_number = Some(frame_number)])

(* VideoEvent.add_object *)
add_object ==
    \/ \E obj \in DObjPool, frame_number \in FrameOpt :
          Return(_add_detected_object(Here, obj, frame_number), NoRet,
                 [NoArgs EXCEPT !.name = "add_object", !.id = obj,
                                !.frame_number = frame_number])
    \/ \E obj \in VideoObjects :
          Return([Here EXCEPT !.ev.objects = Append(@, obj)], NoRet,
                 [NoArgs EXCEPT !.name = "add_object", !.vobjs = <<obj>>])

(* The containers over the instances S: each instance at most once *)
Containers(S) ==
    {c \in UNION {[1..k -> S] : k \in 0..Cardinality(S)} :
        \A i, j \in DOMAIN c : c[i] = c[j] => i = j}

(* VideoEvent.add_objects *)
add_objects ==
    \/ \E objects \in Containers(DObjPool),
          frame_number \in FrameOpt :
          Return(_add_detected_objects(Here, objects, frame_number), NoRet,
                 [NoArgs EXCEPT !.name = "add_objects", !.ids = objects,
                                !.frame_number = frame_number])
    \/ \E objects \in Containers(VideoObjects) :
          /\ objects # <<>>
          /\ Return([Here EXCEPT !.ev.objects = add_container(@, objects)],
                    NoRet,
                    [NoArgs EXCEPT !.name = "add_objects",
                                   !.vobjs = objects])

(* VideoEvent.add_detection *)
add_detection ==
    \E event \in DEventPool, frame_number \in FrameOpt, clean \in BOOLEAN :
        Return(_add_detected_event(Here, event, frame_number, clean), NoRet,
               [NoArgs EXCEPT !.name = "add_detection", !.id = event,
                              !.frame_number = frame_number,
                              !.clean = clean])

(* VideoEvent.add_detections *)
add_detections ==
    \E events \in Containers(DEventPool), clean \in BOOLEAN :
        Return(_add_detected_events(Here, events, clean), NoRet,
               [NoArgs EXCEPT !.name = "add_detections", !.ids = events,
                              !.clean = clean])

(* VideoEvent.add_child_object; uuid is the uuid of the VideoObject *)
add_child_object ==
    \E uuid \in UuidOpt :
        Return(IF uuid = None
               THEN [Here EXCEPT !.err = "ValueError"]
               ELSE [Here EXCEPT !.ev.child_objects = @ \cup {Val(uuid)}],
               NoRet,
               [NoArgs EXCEPT !.name = "add_child_object", !.uuid = uuid])

(* An add_child_event that does not check the uuid *)
add_child_event_unchecked ==
    \E uuid \in UuidOpt :
        Return([Here EXCEPT !.ev.child_events =
                   @ \cup (IF uuid = None THEN {} ELSE {Val(uuid)})],
               NoRet,
               [NoArgs EXCEPT !.name = "add_child_event", !.uuid = uuid])

(* VideoEvent.add_child_event; uuid is the uuid of the child VideoEvent *)
add_child_event ==
    \E uuid \in UuidOpt :
        Return(IF uuid = None
               THEN [Here EXCEPT !.err = "ValueError"]
               ELSE [Here EXCEPT !.ev.child_events = @ \cup {Val(uuid)}],
               NoRet,
               [NoArgs EXCEPT !.name = "add_child_event", !.uuid = uuid])

(* DetectedEvent.clear_attributes on every stored record *)
ClearFrameAttrs(e, h) ==
    [x \in DOMAIN h |->
        IF x \in Range(e.frames) THEN [h[x] EXCEPT !.attrs = <<>>] ELSE h[x]]

(* DetectedEvent.clear_objects on every stored record *)
ClearFrameObjects(e, h) ==
    [x \in DOMAIN h |->
        IF x \in Range(e.frames)
        THEN [h[x] EXCEPT !.objects = <<>>] ELSE h[x]]

(* VideoEvent.clear_event_attributes *)
clear_event_attributes ==
    Return([Here EXCEPT !.ev.attrs = <<>>], NoRet,
           [NoArgs EXCEPT !.name = "clear_event_attributes"])

(* VideoEvent.clear_frame_attributes *)
clear_frame_attributes ==
    Return([Here EXCEPT !.heap = ClearFrameAttrs(ev, heap)], NoRet,
           [NoArgs EXCEPT !.name = "clear_frame_attributes"])

(* VideoEvent.clear_attributes *)
clear_attributes ==
    Return([Here EXCEPT !.ev.attrs = <<>>,
                        !.heap = ClearFrameAttrs(ev, heap)], NoRet,
           [NoArgs EXCEPT !.name = "clear_attributes"])

(* VideoEvent.clear_video_objects *)
clear_video_objects ==
    Return([Here EXCEPT !.ev.objects = <<>>], NoRet,
           [NoArgs EXCEPT !.name = "clear_video_objects"])

(* VideoEvent.clear_detected_objects *)
clear_detected_objects ==
    Return([Here EXCEPT !.heap = ClearFrameObjects(ev, heap)], NoRet,
           [NoArgs EXCEPT !.name = "clear_detected_objects"])

(* VideoEvent.clear_detections *)
clear_detections ==
    Return([Here EXCEPT !.ev.frames = <<>>], NoRet,
           [NoArgs EXCEPT !.name = "clear_detections"])

(* VideoEvent.clear_child_objects *)
clear_child_objects ==
    Return([Here EXCEPT !.ev.child_objects = {}], NoRet,
           [NoArgs EXCEPT !.name = "clear_child_objects"])

(* VideoEvent.clear_child_events *)
clear_child_events ==
    Return([Here EXCEPT !.ev.child_events = {}], NoRet,
           [NoArgs EXCEPT !.name = "clear_child_events"])

----------------------------------------------------------------------------
(* Rendering calls *)

(* VideoEventFrameRenderer(ev).render_frame(frame_number) *)
CallRenderFrame ==
    \E frame_number \in Frames :
        LET r == render_frame(ev, heap, frame_number)
        IN  Rendering(St(ev, r.heap, "none"),
                      [NoRet EXCEPT !.kind = "rec", !.rec = r.id],
                      [NoArgs EXCEPT !.name = "render_frame",
                                     !.frame_number = Some(frame_number)])

(* VideoEventFrameRenderer(ev).render_all_frames() *)
CallRenderAllFrames ==
    LET r == render_all_frames(ev, heap)
    IN  Rendering(St(ev, r.heap, "none"),
                  [NoRet EXCEPT !.kind = "map", !.frames = r.map],
                  [NoArgs EXCEPT !.name = "render_all_frames"])

(* VideoEvent.render_framewise_labels *)
(* A render_framewise_labels that hands the label on to the new event *)
render_framewise_labels_labelled ==
    LET r == render_all_frames(ev, heap)
        frames == r.map
    IN  Rendering(St(ev, r.heap, "none"),
                  [NoRet EXCEPT
                     !.kind = "event", !.frames = frames,
                     !.event = Some(NewVideoEvent(ev.label, None, None, None,
                                                  None, frames))],
                  [NoArgs EXCEPT !.name = "render_framewise_labels"])

render_framewise_labels ==
    LET r == render_all_frames(ev, heap)
        frames == r.map
    IN  Rendering(St(ev, r.heap, "none"),
                  [NoRet EXCEPT
                     !.kind = "event", !.frames = frames,
                     !.event = Some(NewVideoEvent(None, None, None, None,
                                                  None, frames))],
                  [NoArgs EXCEPT !.name = "render_framewise_labels"])

(* The caller changes, once, a record it got back from a rendering call:  *)
(* its label, its attribute list, its object list, one of its attributes  *)
(* or one of its objects                                                  *)
MutateReturned ==
    /\ ~ret.changed
    /\ \E rec \in ReturnedRecords(ret) :
          \/ heap' = [heap EXCEPT ![rec].label = Some("changed")]
          \/ heap' = [heap EXCEPT ![rec].attrs = <<>>]
          \/ heap' = [heap EXCEPT ![rec].objects = <<>>]
          \/ \E a \in Range(heap[rec].attrs) :
                heap' = [heap EXCEPT ![a].value = "changed"]
          \/ \E o \in Range(heap[rec].objects) :
                heap' = [heap EXCEPT ![o].label = "changed"]
    /\ op' = [NoArgs EXCEPT !.name = "mutate_returned"]
    /\ ret' = [ret EXCEPT !.changed = TRUE]
    /\ UNCHANGED <<ev, steps, schema>>

----------------------------------------------------------------------------
(* Initial states: a newly constructed VideoEvent and the instances the    *)
(* caller has created                                                      *)

EventLabels == {None, Some("E")}
EventConfidences == {None, Some(9)}
EventIndexes == {None, Some(3)}
Supports == {None, Some({}), Some({1}), Some(Frames)}

InitHeap ==
    [x \in PoolIds |->
        CASE x = AttrId(1) -> [name |-> "color", value |-> "red"]
          [] x = AttrId(2) -> [name |-> "size", value |-> "big"]
          [] x = DObjId(1) -> [label |-> "car", frame_number |-> None]
          [] x = DObjId(2) -> [label |-> "dog", frame_number |-> Some(1)]
          [] x = DEventId(1) ->
                [label |-> Some("stale"), confidence |-> Some(1),
                 index |-> Some(7), frame_number |-> None,
                 attrs |-> <<AttrId(2), AttrId(1)>>, objects |-> <<>>]
          [] x = DEventId(2) ->
                [label |-> None, confidence |-> None, index |-> None,
                 frame_number |-> Some(1), attrs |-> <<AttrId(2)>>,
                 objects |-> <<DObjId(2), DObjId(1)>>]]

Started(e) ==
    /\ ev = e
    /\ heap = InitHeap
    /\ ret = NoRet
    /\ op = NoArgs
    /\ steps = 0
    /\ schema = <<>>

(* VideoEvent(support=sup): nothing added yet *)
Init ==
    \E sup \in Supports :
        Started(NewVideoEvent(None, None, sup, None, None, <<>>))

Next ==
    \/ add_event_attribute
    \/ add_frame_attribute
    \/ add_object
    \/ add_objects
    \/ add_detection
    \/ add_detections
    \/ add_child_object
    \/ add_child_event
    \/ clear_event_attributes
    \/ clear_frame_attributes
    \/ clear_attributes
    \/ clear_video_objects
    \/ clear_detected_objects
    \/ clear_detections
    \/ clear_child_objects
    \/ clear_child_events

Spec == Init /\ [][Next]_vars

(* VideoEvent(label, confidence, support, index, attrs, objects, frames): *)
(* an event built with its content, then rendered                         *)
InitAttrs == {<<>>, <<AttrId(1)>>, <<AttrId(1), AttrId(2)>>}

InitObjects ==
    {<<>>, <<[label |-> "v", support |-> {1}]>>,
     <<[label |-> "w", support |-> Frames], [label |-> "v", support |-> {1}]>>}

InitFrames == UNION {[S -> DEventPool] : S \in SUBSET Frames}

InitRender ==
    \E label \in EventLabels, confidence \in EventConfidences,
       index \in EventIndexes, sup \in Supports, attrs \in InitAttrs,
       objects \in InitObjects, frames \in InitFrames :
        Started([NewVideoEvent(label, confidence, sup, index, None, frames)
                    EXCEPT !.attrs = attrs, !.objects = objects])

NextRender ==
    \/ CallRenderFrame
    \/ CallRenderAllFrames
    \/ render_framewise_labels
    \/ MutateReturned

SpecRender == InitRender /\ [][NextRender]_vars

----------------------------------------------------------------------------
(* Views: the values behind the ids *)

Deref(h, ids) == [i \in DOMAIN ids |-> h[ids[i]]]

RecordView(h, id) ==
    [label |-> h[id].label, confidence |-> h[id].confidence,
     index |-> h[id].index, frame_number |-> h[id].frame_number,
     attrs |-> Deref(h, h[id].attrs), objects |-> Deref(h, h[id].objects)]

FramesView(e, h) == [f \in DOMAIN e.frames |-> RecordView(h, e.frames[f])]

EventView(e, h) ==
    [label |-> e.label, confidence |-> e.confidence, index |-> e.index,
     uuid |-> e.uuid, support |-> e.support, attrs |-> Deref(h, e.attrs),
     objects |-> e.objects, frames |-> FramesView(e, h),
     child_objects |-> e.child_objects, child_events |-> e.child_events]

RenderCalls == {"render_frame", "render_all_frames", "render_framewise_labels"}

(* The records a rendering call returned, by frame number *)
Rendered ==
    IF ret.kind = "rec"
    THEN (IF ret.rec = NoId THEN <<>> ELSE Val(op.frame_number) :> ret.rec)
    ELSE ret.frames

(* The stored Detection Record of frame f, or the empty one *)
StoredView(f) ==
    IF f \in DOMAIN ev.frames
    THEN RecordView(heap, ev.frames[f])
    ELSE NewDetectedEvent(Some(f))

----------------------------------------------------------------------------
(* Properties of the frame renderer (checked under SpecRender) *)

(* C1: render_all_frames() returns a mapping whose keys are exactly the    *)
(* support of the event (the frozen one if supplied, else the frames with  *)
(* a stored record together with the supports of the temporal objects);    *)
(* a frame without a stored record gets a record carrying its frame        *)
(* number, and a stored record outside the support is left out.            *)
C1_RenderAllFramesCoversSupport ==
    op.name = "render_all_frames" =>
        /\ DOMAIN ret.frames =
              (IF ev.support # None
               THEN Val(ev.support)
               ELSE DOMAIN ev.frames \cup
                    {f \in Frames : \E i \in DOMAIN ev.objects :
                                        f \in ev.objects[i].support})
        /\ \A f \in DOMAIN ret.frames \ DOMAIN ev.frames :
              heap[ret.frames[f]].frame_number = Some(f)

C1_Witness ==
    /\ op.name = "render_all_frames"
    /\ ev.support # None
    /\ Val(ev.support) \ DOMAIN ev.frames # {}
    /\ DOMAIN ev.frames \ Val(ev.support) # {}

(* C2: neither a rendering call nor a later change of a returned record    *)
(* changes the source event: its frames (keys and every stored record's    *)
(* fields, attributes and objects), event-level attributes, temporal       *)
(* objects, label, confidence and index stay as they were.                 *)
C2_RenderingLeavesEventUnchanged ==
    [][op'.name \in RenderCalls \cup {"mutate_returned"}
          => EventView(ev', heap') = EventView(ev, heap)]_vars

C2_Witness ==
    /\ op.name = "mutate_returned"
    /\ ev.attrs # <<>>
    /\ \E f \in DOMAIN ret.frames \cap DOMAIN ev.frames :
          /\ heap[ret.frames[f]].label = Some("changed")
          /\ heap[ev.frames[f]].label # Some("changed")

(* C3: in every rendered record, label, confidence and index are the       *)
(* event's value when the event defines it, else the stored record's       *)
(* value (null for a synthesized record).                                  *)
C3_EventIdentityWins ==
    op.name \in RenderCalls =>
        \A f \in DOMAIN Rendered :
            LET r == heap[Rendered[f]]
                s == StoredView(f)
            IN  /\ r.label = (IF ev.label # None THEN ev.label ELSE s.label)
                /\ r.confidence = (IF ev.confidence # None
                                   THEN ev.confidence ELSE s.confidence)
                /\ r.index = (IF ev.index # None THEN ev.index ELSE s.index)

C3_Witness ==
    /\ op.name = "render_all_frames"
    /\ ev.label = Some("E")
    /\ ev.index = None
    /\ \E f \in DOMAIN ret.frames \cap DOMAIN ev.frames :
          /\ heap[ev.frames[f]].label = Some("stale")
          /\ heap[ret.frames[f]].label = Some("E")
          /\ heap[ret.frames[f]].index = Some(7)

(* C4: the attributes of a rendered record are the event-level attributes  *)
(* in their order followed by the frame's stored attributes in their       *)
(* order; without event-level attributes they are the stored ones.         *)
C4_EventAttributesPrepended ==
    op.name \in RenderCalls =>
        \A f \in DOMAIN Rendered :
            Deref(heap, heap[Rendered[f]].attrs)
                = Deref(heap, ev.attrs) \o StoredView(f).attrs

C4_Witness ==
    /\ op.name = "render_all_frames"
    /\ Len(ev.attrs) = 2
    /\ \E f \in DOMAIN ret.frames \cap DOMAIN ev.frames :
          /\ Len(heap[ev.frames[f]].attrs) = 2
          /\ Len(heap[ret.frames[f]].attrs) = 4

(* C5: render_frame(f) returns None exactly when f is outside the support, *)
(* and otherwise a record equal to render_all_frames()[f].                 *)
C5_RenderFrameAgreesWithAll ==
    op.name = "render_frame" =>
        LET f == Val(op.frame_number)
            all == render_all_frames(ev, heap)
        IN  /\ (ret.rec = NoId) <=> (f \notin support(ev))
            /\ f \in support(ev) =>
                  RecordView(heap, ret.rec) = RecordView(all.heap, all.map[f])

C5_Witness ==
    /\ op.name = "render_frame"
    /\ ret.rec # NoId
    /\ Val(op.frame_number) \in DOMAIN ev.frames
    /\ heap[ev.frames[Val(op.frame_number)]].objects # <<>>
    /\ Len(heap[ret.rec].objects)
          > Len(heap[ev.frames[Val(op.frame_number)]].objects)

----------------------------------------------------------------------------
(* Properties of the VideoEvent operations (checked under Spec) *)

(* C6: add_child_event / add_child_object succeed exactly when the uuid is *)
(* non-null; then the child set becomes the old set with the uuid added;   *)
(* with a null uuid the call raises ValueError (a precondition error, not  *)
(* a schema error) and both child sets are unchanged.                      *)
C6_AddChildRequiresUuid ==
    [][/\ op'.name = "add_child_event" =>
            IF op'.uuid # None
            THEN /\ op'.err = "none"
                 /\ ev'.child_events = ev.child_events \cup {Val(op'.uuid)}
                 /\ ev'.child_objects = ev.child_objects
            ELSE /\ op'.err = "ValueError"
                 /\ ev'.child_events = ev.child_events
                 /\ ev'.child_objects = ev.child_objects
       /\ op'.name = "add_child_object" =>
            IF op'.uuid # None
            THEN /\ op'.err = "none"
                 /\ ev'.child_objects = ev.child_objects \cup {Val(op'.uuid)}
                 /\ ev'.child_events = ev.child_events
            ELSE /\ op'.err = "ValueError"
                 /\ ev'.child_events = ev.child_events
                 /\ ev'.child_objects = ev.child_objects]_vars

C6_Witness ==
    /\ op.name = "add_child_event"
    /\ op.err = "ValueError"
    /\ ev.child_events # {}

(* C7: an add_object / add_objects / add_detection / add_detections call   *)
(* that raises leaves the frames and the temporal objects of the event     *)
(* exactly as they were before the call.                                   *)
C7_FailedAddLeavesEventUnchanged ==
    [][(/\ op'.name \in {"add_object", "add_objects",
                         "add_detection", "add_detections"}
        /\ op'.err # "none")
          => /\ FramesView(ev', heap') = FramesView(ev, heap)
             /\ ev'.objects = ev.objects]_vars

C9_AddObjectDispatches ==
    [][op'.name = "add_object" =>
         IF op'.vobjs # <<>>
         THEN /\ op'.err = "none"
              /\ ev'.objects = Append(ev.objects, op'.vobjs[1])
              /\ ev'.frames = ev.frames
              /\ FramesView(ev', heap') = FramesView(ev, heap)
         ELSE LET obj == op'.id
                  resolved == IF op'.frame_number # None
                              THEN op'.frame_number
                              ELSE heap[obj].frame_number
              IN  IF resolved = None
                  THEN op'.err = "ValueError"
                  ELSE LET f == Val(resolved)
                           old == IF f \in DOMAIN ev.frames
                                  THEN heap[ev.frames[f]].objects ELSE <<>>
                       IN  /\ op'.err = "none"
                           /\ DOMAIN ev'.frames = DOMAIN ev.frames \cup {f}
                           /\ f \in DOMAIN ev.frames =>
                                 ev'.frames[f] = ev.frames[f]
                           /\ heap'[ev'.frames[f]].objects = Append(old, obj)
                           /\ ev'.objects = ev.objects]_vars

C9_Witness ==
    /\ op.name = "add_object"
    /\ op.err = "none"
    /\ op.id = DObjId(1)
    /\ op.frame_number = None
    /\ \E f \in DOMAIN ev.frames :
          /\ heap[DObjId(1)].frame_number = Some(f)
          /\ Len(heap[ev.frames[f]].objects) = 2
          /\ heap[ev.frames[f]].objects[2] = DObjId(1)

(* C10: whatever is added or cleared, the support of an event created      *)
(* without a support is the frame numbers present in frames together with  *)
(* the supports of its temporal objects, and the support of an event       *)
(* created with a frozen support stays the supplied one.                   *)
C10_SupportFollowsContent ==
    [][/\ ev.support = None =>
            /\ ev'.support = None
            /\ support(ev') =
                  DOMAIN ev'.frames \cup
                  {f \in Frames : \E i \in DOMAIN ev'.objects :
                                      f \in ev'.objects[i].support}
       /\ ev.support # None =>
            /\ ev'.support = ev.support
            /\ support(ev') = Val(ev.support)]_vars

C10_Witness ==
    /\ ev.support = None
    /\ ev.objects # <<>>
    /\ DOMAIN ev.frames # {}
    /\ DOMAIN ev.frames # support(ev)
    /\ \E i \in DOMAIN ev.objects : ev.objects[i].support # support(ev)

----------------------------------------------------------------------------
(* Schemas                                                                 *)
(*                                                                         *)
(* An AttributeContainerSchema is the set of attributes it allows, an      *)
(* ObjectContainerSchema maps each object label it allows to an            *)
(* ObjectSchema with its object-level and frame-level attribute schemas.   *)

AttrValues ==
    {[name |-> "color", value |-> "red"], [name |-> "size", value |-> "big"]}

ObjectLabels == {"car", "dog", "v", "w"}

NewObjectSchema == [attrs |-> {}, frames |-> {}]

(* EventSchema.__init__ *)
NewEventSchema(label, attrs, frames, objects) ==
    [label |-> label, attrs |-> attrs, frames |-> frames, objects |-> objects]

SchemaErrors ==
    {"EventSchemaError", "EventContainerSchemaError",
     "AttributeContainerSchemaError", "ObjectContainerSchemaError"}

(* The schemas handed to the calls *)
SchemaLabels == {None, Some("E"), Some("stale")}

EventSchemas ==
    {NewEventSchema(label, attrs, frames, objects) :
        label \in SchemaLabels,
        attrs \in {{[name |-> "color", value |-> "red"]}, AttrValues},
        frames \in {{[name |-> "color", value |-> "red"]}, AttrValues},
        objects \in {[l \in {"car", "v"} |-> NewObjectSchema],
                     [l \in ObjectLabels |-> NewObjectSchema]}}

(* EventSchema.validate_label *)
validate_label(es, label) ==
    IF label # es.label THEN "EventSchemaError" ELSE "none"

(* A filter that ignores allow_none_label *)
DetectedEvent_filter_by_schema_strict(s, rec, es, allow_none_label) ==
    IF s.heap[rec].label # es.label
    THEN [s EXCEPT !.err = "EventSchemaError"]
    ELSE [s EXCEPT
            !.heap[rec].attrs =
                SelectSeq(@, LAMBDA a : s.heap[a] \in es.frames),
            !.heap[rec].objects =
                SelectSeq(@, LAMBDA o : s.heap[o].label
                                           \in DOMAIN es.objects)]

(* DetectedEvent.filter_by_schema *)
DetectedEvent_filter_by_schema(s, rec, es, allow_none_label) ==
    IF s.heap[rec].label = None /\ ~allow_none_label
    THEN [s EXCEPT !.err = "EventSchemaError"]
    ELSE IF s.heap[rec].label # None /\ s.heap[rec].label # es.label
    THEN [s EXCEPT !.err = "EventSchemaError"]
    ELSE [s EXCEPT
            !.heap[rec].attrs =
                SelectSeq(@, LAMBDA a : s.heap[a] \in es.frames),
            !.heap[rec].objects =
                SelectSeq(@, LAMBDA o : s.heap[o].label
                                           \in DOMAIN es.objects)]

(* The loop of VideoEvent.filter_by_schema over iter_detections(): the     *)
(* frames in sorted order, up to the first record that raises              *)
RECURSIVE FilterDetections(_, _, _)
FilterDetections(s, todo, es) ==
    IF todo = {} \/ s.err # "none"
    THEN s
    ELSE LET f == Min(todo)
         IN  FilterDetections(
                 DetectedEvent_filter_by_schema(s, s.ev.frames[f], es, FALSE),
                 todo \ {f}, es)

(* VideoEvent.filter_by_schema *)
VideoEvent_filter_by_schema(s, es) ==
    IF validate_label(es, s.ev.label) # "none"
    THEN [s EXCEPT !.err = validate_label(es, s.ev.label)]
    ELSE FilterDetections(
             [s EXCEPT
                !.ev.attrs =
                    SelectSeq(@, LAMBDA a : s.heap[a] \in es.attrs),
                !.ev.objects =
                    SelectSeq(@, LAMBDA o : o.label
                                               \in DOMAIN es.objects)],
             DOMAIN s.ev.frames, es)

(* EventSchema._validate_detected_event *)
_validate_detected_event(es, h, rec, check_label) ==
    IF check_label /\ validate_label(es, h[rec].label) # "none"
    THEN validate_label(es, h[rec].label)
    ELSE IF \E a \in Range(h[rec].attrs) : h[a] \notin es.frames
    THEN "AttributeContainerSchemaError"
    ELSE IF \E o \in Range(h[rec].objects) :
                h[o].label \notin DOMAIN es.objects
    THEN "ObjectContainerSchemaError"
    ELSE "none"

(* A validation that also checks the labels of the stored records *)
_validate_video_event_labels(es, e, h) ==
    IF validate_label(es, e.label) # "none"
    THEN validate_label(es, e.label)
    ELSE IF \E a \in Range(e.attrs) : h[a] \notin es.attrs
    THEN "AttributeContainerSchemaError"
    ELSE LET bad == {f \in DOMAIN e.frames :
                        _validate_detected_event(es, h, e.frames[f], TRUE)
                            # "none"}
         IN  IF bad = {} THEN "none"
             ELSE _validate_detected_event(es, h, e.frames[Min(bad)], TRUE)

(* EventSchema._validate_video_event: the first error in frame order *)
_validate_video_event(es, e, h) ==
    IF validate_label(es, e.label) # "none"
    THEN validate_label(es, e.label)
    ELSE IF \E a \in Range(e.attrs) : h[a] \notin es.attrs
    THEN "AttributeContainerSchemaError"
    ELSE LET bad == {f \in DOMAIN e.frames :
                        _validate_detected_event(es, h, e.frames[f], FALSE)
                            # "none"}
         IN  IF bad = {} THEN "none"
             ELSE _validate_detected_event(es, h, e.frames[Min(bad)], FALSE)

(* An event handed to a schema: a DetectedEvent instance or the aggregate *)
DetectedRef(rec) == [type |-> "DetectedEvent", id |-> rec, event |-> None]
VideoRef(e) == [type |-> "VideoEvent", id |-> NoId, event |-> Some(e)]

(* EventSchema.validate *)
EventSchema_validate(es, h, event) ==
    IF event.type = "DetectedEvent"
    THEN _validate_detected_event(es, h, event.id, TRUE)
    ELSE _validate_video_event(es, Val(event.event), h)

----------------------------------------------------------------------------
(* Calls with a schema on an event that holds Detection Records *)

(* A call that takes a schema is the last call of a run *)
Checking(s, call) ==
    /\ steps < MaxSteps
    /\ steps' = MaxSteps
    /\ Complete(s, NoRet, call)

(* event.filter_by_schema(schema) on the aggregate *)
CallVideoEventFilterBySchema ==
    \E es \in EventSchemas :
        Checking(VideoEvent_filter_by_schema(Here, es),
                 [NoArgs EXCEPT !.name = "VideoEvent.filter_by_schema",
                                !.schema = Some(es)])

(* devent.filter_by_schema(schema, allow_none_label) on an instance the    *)
(* caller holds                                                            *)
CallDetectedEventFilterBySchema ==
    \E rec \in DEventPool, es \in EventSchemas, allow_none_label \in BOOLEAN :
        Checking(DetectedEvent_filter_by_schema(Here, rec, es,
                                                allow_none_label),
                 [NoArgs EXCEPT !.name = "DetectedEvent.filter_by_schema",
                                !.id = rec, !.schema = Some(es),
                                !.allow_none_label = allow_none_label])

(* schema.validate(event) on the aggregate or on an instance *)
CallEventSchemaValidate ==
    \E es \in EventSchemas,
       event \in {VideoRef(ev)} \cup {DetectedRef(rec) : rec \in DEventPool} :
        Checking([Here EXCEPT !.err = EventSchema_validate(es, heap, event)],
                 [NoArgs EXCEPT !.name = "EventSchema.validate",
                                !.id = event.id, !.schema = Some(es)])

(* VideoEvent(label, attrs, objects, frames), with room for one more call *)
(* before the call with the schema                                         *)
InitFilter ==
    \E label \in EventLabels, frames \in InitFrames :
        /\ ev = [NewVideoEvent(label, None, None, None, None, frames)
                    EXCEPT !.attrs = <<AttrId(1), AttrId(2)>>,
                           !.objects = <<[label |-> "w", support |-> Frames],
                                         [label |-> "v", support |-> {1}]>>]
        /\ heap = InitHeap
        /\ ret = NoRet
        /\ op = NoArgs
        /\ steps = MaxSteps - 2
        /\ schema = <<>>

NextFilter ==
    \/ add_detection
    \/ add_frame_attribute
    \/ CallVideoEventFilterBySchema
    \/ CallDetectedEventFilterBySchema
    \/ CallEventSchemaValidate

SpecFilter == InitFilter /\ [][NextFilter]_vars

----------------------------------------------------------------------------
(* Properties of filtering and validation (checked under SpecFilter) *)

(* C11: VideoEvent.filter_by_schema(schema) on an aggregate whose label    *)
(* equals the schema's label completes without error and filters the      *)
(* event-level attributes, the temporal objects and the attributes and    *)
(* objects of every stored Detection Record against that schema, whatever  *)
(* the label of the stored record is (null after add_detection(clean=True) *)
(* or add_frame_attribute included).                                       *)
C11_FilterAcceptsAnyRecordLabel ==
    [][(op'.name = "VideoEvent.filter_by_schema"
            /\ ev.label = Val(op'.schema).label) =>
        LET es == Val(op'.schema)
        IN  /\ op'.err = "none"
            /\ ev'.attrs =
                  SelectSeq(ev.attrs, LAMBDA a : heap[a] \in es.attrs)
            /\ ev'.objects =
                  SelectSeq(ev.objects,
                            LAMBDA o : o.label \in DOMAIN es.objects)
            /\ ev'.frames = ev.frames
            /\ \A rec \in Range(ev.frames) :
                  /\ heap'[rec].attrs =
                        SelectSeq(heap[rec].attrs,
                                  LAMBDA a : heap[a] \in es.frames)
                  /\ heap'[rec].objects =
                        SelectSeq(heap[rec].objects,
                                  LAMBDA o : heap[o].label
                                                \in DOMAIN es.objects)
      ]_vars

(* C12: DetectedEvent.filter_by_schema(schema, allow_none_label) raises a  *)
(* schema violation when the label is null and allow_none_label is false,  *)
(* or when the label is non-null and differs from the schema's label, and  *)
(* then leaves the attributes and objects of the record as they were;      *)
(* otherwise it succeeds and filters the attributes by schema.frames and   *)
(* the objects by schema.objects.                                          *)
C12_DetectedFilterChecksLabelFirst ==
    [][op'.name = "DetectedEvent.filter_by_schema" =>
        LET rec == op'.id
            es == Val(op'.schema)
            label == heap[rec].label
        IN  IF \/ label = None /\ ~op'.allow_none_label
               \/ label # None /\ label # es.label
            THEN /\ op'.err \in SchemaErrors
                 /\ RecordView(heap', rec) = RecordView(heap, rec)
            ELSE /\ op'.err = "none"
                 /\ heap'[rec].attrs =
                       SelectSeq(heap[rec].attrs,
                                 LAMBDA a : heap[a] \in es.frames)
                 /\ heap'[rec].objects =
                       SelectSeq(heap[rec].objects,
                                 LAMBDA o : heap[o].label
                                               \in DOMAIN es.objects)
      ]_vars

C12_Witness ==
    /\ op.name = "DetectedEvent.filter_by_schema"
    /\ op.err = "none"
    /\ op.allow_none_label
    /\ op.id = DEventId(2)
    /\ heap[DEventId(2)].label = None
    /\ Val(op.schema).label # None
    /\ heap[DEventId(2)].attrs = <<>>
    /\ heap[DEventId(2)].objects = <<DObjId(1)>>

(* C13: EventSchema.validate(event) on the aggregate succeeds exactly when *)
(* the event's label equals the schema's label, its event-level attributes *)
(* are allowed by schema.attrs and the attributes and objects of every     *)
(* stored Detection Record are allowed by schema.frames and                *)
(* schema.objects; the labels of the stored records play no part.  On a    *)
(* Detection Record passed by itself the record's own label is checked.    *)
C13_ValidateIgnoresRecordLabels ==
    op.name = "EventSchema.validate" =>
        LET es == Val(op.schema)
            RecordOk(rec) ==
                /\ \A a \in Range(heap[rec].attrs) : heap[a] \in es.frames
                /\ \A o \in Range(heap[rec].objects) :
                      heap[o].label \in DOMAIN es.objects
        IN  /\ op.err \in SchemaErrors \cup {"none"}
            /\ IF op.id = NoId
               THEN op.err = "none" <=>
                        /\ ev.label = es.label
                        /\ \A a \in Range(ev.attrs) : heap[a] \in es.attrs
                        /\ \A rec \in Range(ev.frames) : RecordOk(rec)
               ELSE op.err = "none" <=>
                        /\ heap[op.id].label = es.label
                        /\ RecordOk(op.id)

C13_Witness ==
    /\ op.name = "EventSchema.validate"
    /\ op.id = NoId
    /\ op.err = "none"
    /\ \E rec \in Range(ev.frames) :
          heap[rec].label # None /\ heap[rec].label # ev.label
    /\ \E rec \in Range(ev.frames) : heap[rec].label = None

----------------------------------------------------------------------------
(* EventSchema                                                             *)
(*                                                                         *)
(* The add_*, validate_* and is_valid_* methods come in the same kinds;    *)
(* a call names the kind and carries the arguments of that kind.           *)

Kinds ==
    {"event_attribute", "event_attributes", "frame_attribute",
     "frame_attributes", "object_label", "object_attribute",
     "object_attributes", "object_frame_attribute",
     "object_frame_attributes", "object", "objects"}

NoArg ==
    [obj_label |-> "car", attr |-> AttrId(1), attrs |-> <<>>,
     obj |-> DObjId(1), objects |-> <<>>,
     event |-> DetectedRef(DEventId(1)), events |-> <<>>]

(* The arguments a method of the given kind is called with; an event is    *)
(* the aggregate or an instance of the caller, an event container holds    *)
(* instances of the caller or the aggregate                                *)
ArgsOf(kind) ==
    {[obj_label |-> l, attr |-> x, attrs |-> xs, obj |-> o, objects |-> os,
      event |-> e, events |-> es] :
        l \in IF kind \in {"object_label", "object_attribute",
                           "object_attributes", "object_frame_attribute",
                           "object_frame_attributes"}
              THEN {"car", "dog"} ELSE {NoArg.obj_label},
        x \in IF kind \in {"event_attribute", "frame_attribute",
                           "object_attribute", "object_frame_attribute"}
              THEN AttrPool ELSE {NoArg.attr},
        xs \in IF kind \in {"event_attributes", "frame_attributes",
                            "object_attributes", "object_frame_attributes"}
               THEN Containers(AttrPool) ELSE {NoArg.attrs},
        o \in IF kind = "object" THEN DObjPool ELSE {NoArg.obj},
        os \in IF kind = "objects"
               THEN Containers(DObjPool) ELSE {NoArg.objects},
        e \in IF kind = "event"
              THEN {VideoRef(ev)} \cup {DetectedRef(r) : r \in DEventPool}
              ELSE {NoArg.event},
        es \in IF kind = "events"
               THEN {[i \in DOMAIN c |-> DetectedRef(c[i])] :
                        c \in Containers(DEventPool)}
                        \cup {<<VideoRef(ev)>>}
               ELSE {NoArg.events}}

(* etao.ObjectContainerSchema: the ObjectSchema of a label, a new one if   *)
(* the label is not there yet                                              *)
ObjectSchemaOf(os, label) ==
    IF label \in DOMAIN os THEN os[label] ELSE NewObjectSchema

(* etao.ObjectContainerSchema.add_object_label / add_object / add_objects *)
AddObjectLabels(os, labels) ==
    [l \in DOMAIN os \cup labels |-> ObjectSchemaOf(os, l)]

(* EventSchema.add_event_attribute ... EventSchema.add_objects *)
EventSchemaAdd(es, h, kind, a) ==
    LET one == {h[a.attr]}
        all == {h[x] : x \in Range(a.attrs)}
        l == a.obj_label
        os == AddObjectLabels(es.objects, {l})
    IN  CASE kind = "event_attribute" -> [es EXCEPT !.attrs = @ \cup one]
          [] kind = "event_attributes" -> [es EXCEPT !.attrs = @ \cup all]
          [] kind = "frame_attribute" -> [es EXCEPT !.frames = @ \cup one]
          [] kind = "frame_attributes" -> [es EXCEPT !.frames = @ \cup all]
          [] kind = "object_label" -> [es EXCEPT !.objects = os]
          [] kind = "object_attribute" ->
                [es EXCEPT !.objects = [os EXCEPT ![l].attrs = @ \cup one]]
          [] kind = "object_attributes" ->
                [es EXCEPT !.objects = [os EXCEPT ![l].attrs = @ \cup all]]
          [] kind = "object_frame_attribute" ->
                [es EXCEPT !.objects = [os EXCEPT ![l].frames = @ \cup one]]
          [] kind = "object_frame_attributes" ->
                [es EXCEPT !.objects = [os EXCEPT ![l].frames = @ \cup all]]
          [] kind = "object" ->
                [es EXCEPT !.objects = AddObjectLabels(@, {h[a.obj].label})]
          [] kind = "objects" ->
                [es EXCEPT !.objects =
                    AddObjectLabels(@, {h[o].label : o \in Range(a.objects)})]

(* EventSchema.validate_event_attribute ... EventSchema.validate_object:   *)
(* the error raised, or "none"                                             *)
EventSchemaValidate(es, h, kind, a) ==
    LET one == {h[a.attr]}
        all == {h[x] : x \in Range(a.attrs)}
        l == a.obj_label
        Attrs(given, allowed) ==
            IF given \subseteq allowed THEN "none"
            ELSE "AttributeContainerSchemaError"
        Object(label, given, field) ==
            IF label \notin DOMAIN es.objects
            THEN "ObjectContainerSchemaError"
            ELSE IF given \subseteq es.objects[label][field] THEN "none"
            ELSE "ObjectContainerSchemaError"
    IN  CASE kind = "event_attribute" -> Attrs(one, es.attrs)
          [] kind = "event_attributes" -> Attrs(all, es.attrs)
          [] kind = "frame_attribute" -> Attrs(one, es.frames)
          [] kind = "frame_attributes" -> Attrs(all, es.frames)
          [] kind = "object_label" -> Object(l, {}, "attrs")
          [] kind = "object_attribute" -> Object(l, one, "attrs")
          [] kind = "object_attributes" -> Object(l, all, "attrs")
          [] kind = "object_frame_attribute" -> Object(l, one, "frames")
          [] kind = "object_frame_attributes" -> Object(l, all, "frames")
          [] kind = "object" -> Object(h[a.obj].label, {}, "attrs")

(* EventSchema.is_valid_event_attribute ... EventSchema.is_valid_object:   *)
(* the call is passed on to the sub-schema, which answers True or False;   *)
(* is_valid_object_frame_attributes names a method the object schema does  *)
(* not have                                                                *)
EventSchemaIsValid(es, h, kind, a) ==
    IF kind = "object_frame_attributes"
    THEN [err |-> "AttributeError", value |-> None]
    ELSE [err |-> "none",
          value |-> Some(EventSchemaValidate(es, h, kind, a) = "none")]

GetKinds ==
    {"event_attribute_schema", "event_attribute_class",
     "frame_attribute_schema", "frame_attribute_class", "object_schema",
     "object_attribute_schema", "object_frame_attribute_schema",
     "object_attribute_class", "object_frame_attribute_class"}

(* EventSchema.get_event_attribute_schema ... EventSchema.                 *)
(* get_object_frame_attribute_class: the schema of the named attribute is  *)
(* the set of its allowed values, its class is that of the Attribute       *)
EventSchemaGet(es, h, kind, a) ==
    LET name == h[a.attr].name
        l == a.obj_label
        Named(allowed) == {v \in allowed : v.name = name}
        Schema(allowed) ==
            IF Named(allowed) = {}
            THEN [err |-> "AttributeContainerSchemaError", value |-> None]
            ELSE [err |-> "none", value |-> Some(Named(allowed))]
        Class(allowed) ==
            IF Named(allowed) = {}
            THEN [err |-> "AttributeContainerSchemaError", value |-> None]
            ELSE [err |-> "none", value |-> Some("CategoricalAttribute")]
        NoObject == [err |-> "ObjectContainerSchemaError", value |-> None]
        known == l \in DOMAIN es.objects
    IN  CASE kind = "event_attribute_schema" -> Schema(es.attrs)
          [] kind = "event_attribute_class" -> Class(es.attrs)
          [] kind = "frame_attribute_schema" -> Schema(es.frames)
          [] kind = "frame_attribute_class" -> Class(es.frames)
          [] kind = "object_schema" ->
                IF known THEN [err |-> "none", value |-> Some(es.objects[l])]
                ELSE NoObject
          [] kind = "object_attribute_schema" ->
                IF known THEN Schema(es.objects[l].attrs) ELSE NoObject
          [] kind = "object_frame_attribute_schema" ->
                IF known THEN Schema(es.objects[l].frames) ELSE NoObject
          [] kind = "object_attribute_class" ->
                IF known THEN Class(es.objects[l].attrs) ELSE NoObject
          [] kind = "object_frame_attribute_class" ->
                IF known THEN Class(es.objects[l].frames) ELSE NoObject

(* EventSchema.has_event_attribute ... EventSchema.                        *)
(* has_object_frame_attribute: whether the sub-schema has an attribute of  *)
(* the name, for an object only if it has the object label                 *)
EventSchemaHas(es, h, kind, a) ==
    LET name == h[a.attr].name
        l == a.obj_label
        known == l \in DOMAIN es.objects
        has_attribute(allowed) == \E v \in allowed : v.name = name
    IN  CASE kind = "event_attribute" -> has_attribute(es.attrs)
          [] kind = "frame_attribute" -> has_attribute(es.frames)
          [] kind = "object_label" -> known
          [] kind = "object_attribute" ->
                known /\ has_attribute(es.objects[l].attrs)
          [] kind = "object_frame_attribute" ->
                known /\ has_attribute(es.objects[l].frames)

(* An _add_detected_event that leaves the objects out *)
EventSchema_add_detected_event_attrs(es, h, rec, check_label) ==
    IF check_label /\ validate_label(es, h[rec].label) # "none"
    THEN [schema |-> es, err |-> validate_label(es, h[rec].label)]
    ELSE [schema |->
             EventSchemaAdd(es, h, "frame_attributes",
                            [NoArg EXCEPT !.attrs = h[rec].attrs]),
          err |-> "none"]

(* EventSchema._add_detected_event *)
EventSchema_add_detected_event(es, h, rec, check_label) ==
    IF check_label /\ validate_label(es, h[rec].label) # "none"
    THEN [schema |-> es, err |-> validate_label(es, h[rec].label)]
    ELSE [schema |->
             EventSchemaAdd(
                 EventSchemaAdd(es, h, "frame_attributes",
                                [NoArg EXCEPT !.attrs = h[rec].attrs]),
                 h, "objects", [NoArg EXCEPT !.objects = h[rec].objects]),
          err |-> "none"]

(* The records of the frames in todo added one after the other *)
RECURSIVE AddDetections(_, _, _, _)
AddDetections(es, h, e, todo) ==
    IF todo = {}
    THEN es
    ELSE AddDetections(
             EventSchema_add_detected_event(es, h, e.frames[Min(todo)],
                                            FALSE).schema,
             h, e, todo \ {Min(todo)})

(* EventSchema._add_video_event *)
EventSchema_add_video_event(es, h, e) ==
    IF validate_label(es, e.label) # "none"
    THEN [schema |-> es, err |-> validate_label(es, e.label)]
    ELSE [schema |->
             AddDetections(
                 EventSchemaAdd(es, h, "event_attributes",
                                [NoArg EXCEPT !.attrs = e.attrs]),
                 h, e, DOMAIN e.frames),
          err |-> "none"]

(* EventSchema.add_event *)
EventSchema_add_event(es, h, event) ==
    IF event.type = "DetectedEvent"
    THEN EventSchema_add_detected_event(es, h, event.id, TRUE)
    ELSE EventSchema_add_video_event(es, h, Val(event.event))

(* etao.ObjectContainerSchema.validate_subset_of_schema *)
ObjectsSubset(os, other) ==
    /\ DOMAIN os \subseteq DOMAIN other
    /\ \A l \in DOMAIN os :
          os[l].attrs \subseteq other[l].attrs
              /\ os[l].frames \subseteq other[l].frames

(* A subset check that compares the sub-schemas only *)
EventSchema_validate_subset_of_schema_nolabel(es, other) ==
    IF ~(es.attrs \subseteq other.attrs /\ es.frames \subseteq other.frames)
    THEN "AttributeContainerSchemaError"
    ELSE IF ~ObjectsSubset(es.objects, other.objects)
    THEN "ObjectContainerSchemaError"
    ELSE "none"

(* EventSchema.validate_subset_of_schema *)
EventSchema_validate_subset_of_schema(es, other) ==
    IF es.label # other.label
    THEN "EventSchemaError"
    ELSE IF ~(es.attrs \subseteq other.attrs /\ es.frames \subseteq other.frames)
    THEN "AttributeContainerSchemaError"
    ELSE IF ~ObjectsSubset(es.objects, other.objects)
    THEN "ObjectContainerSchemaError"
    ELSE "none"

(* etao.ObjectContainerSchema.merge_schema *)
ObjectsMerge(os, other) ==
    [l \in DOMAIN os \cup DOMAIN other |->
        [attrs |-> ObjectSchemaOf(os, l).attrs
                      \cup ObjectSchemaOf(other, l).attrs,
         frames |-> ObjectSchemaOf(os, l).frames
                       \cup ObjectSchemaOf(other, l).frames]]

(* A merge that does not look at the label of the other schema *)
EventSchema_merge_schema_any(es, other) ==
    [schema |-> [es EXCEPT !.attrs = @ \cup other.attrs,
                           !.frames = @ \cup other.frames,
                           !.objects = ObjectsMerge(@, other.objects)],
     err |-> "none"]

(* EventSchema.merge_schema *)
EventSchema_merge_schema(es, other) ==
    IF validate_label(es, other.label) # "none"
    THEN [schema |-> es, err |-> validate_label(es, other.label)]
    ELSE [schema |-> [es EXCEPT !.attrs = @ \cup other.attrs,
                                !.frames = @ \cup other.frames,
                                !.objects = ObjectsMerge(@, other.objects)],
          err |-> "none"]

----------------------------------------------------------------------------
(* EventContainerSchema: a dictionary from event labels to EventSchemas *)

(* An _ensure_has_event_label whose new entry carries no label *)
_ensure_has_event_label_unlabelled(cs, label) ==
    IF label \in DOMAIN cs
    THEN cs
    ELSE Put(cs, label, NewEventSchema(None, {}, {}, <<>>))

(* EventContainerSchema._ensure_has_event_label *)
_ensure_has_event_label(cs, label) ==
    IF label \in DOMAIN cs
    THEN cs
    ELSE Put(cs, label, NewEventSchema(label, {}, {}, <<>>))

(* EventContainerSchema.validate_event_label *)
validate_event_label(cs, label) ==
    IF label \notin DOMAIN cs THEN "EventContainerSchemaError" ELSE "none"

(* The label of an event handed to a schema *)
LabelOf(h, event) ==
    IF event.type = "DetectedEvent"
    THEN h[event.id].label ELSE Val(event.event).label

(* EventContainerSchema.validate_event *)
validate_event(cs, h, event) ==
    IF validate_event_label(cs, LabelOf(h, event)) # "none"
    THEN validate_event_label(cs, LabelOf(h, event))
    ELSE EventSchema_validate(cs[LabelOf(h, event)], h, event)

(* EventContainerSchema.validate: the error of the first event that fails *)
EventContainerSchema_validate(cs, h, events) ==
    LET bad == {i \in DOMAIN events : validate_event(cs, h, events[i]) # "none"}
    IN  IF bad = {} THEN "none" ELSE validate_event(cs, h, events[Min(bad)])

(* EventContainerSchema.get_event_schema *)
get_event_schema(cs, label) ==
    IF validate_event_label(cs, label) # "none"
    THEN [err |-> validate_event_label(cs, label), value |-> None]
    ELSE [err |-> "none", value |-> Some(cs[label])]

(* EventContainerSchema.add_event *)
EventContainerSchema_add_event(cs, h, event) ==
    LET label == LabelOf(h, event)
        cs1 == _ensure_has_event_label(cs, label)
    IN  [cs1 EXCEPT ![label] = EventSchema_add_event(@, h, event).schema]

(* EventContainerSchema.add_events *)
RECURSIVE EventContainerSchema_add_events(_, _, _)
EventContainerSchema_add_events(cs, h, events) ==
    IF events = <<>>
    THEN cs
    ELSE EventContainerSchema_add_events(
             EventContainerSchema_add_event(cs, h, Head(events)),
             h, Tail(events))

(* EventContainerSchema.add_event_label ... add_events: the entry is       *)
(* created if needed, then the EventSchema method of the same kind runs    *)
ContainerAdd(cs, h, kind, label, a) ==
    LET cs1 == _ensure_has_event_label(cs, label)
    IN  CASE kind = "event_label" -> cs1
          [] kind = "event" -> EventContainerSchema_add_event(cs, h, a.event)
          [] kind = "events" ->
                EventContainerSchema_add_events(cs, h, a.events)
          [] OTHER -> [cs1 EXCEPT ![label] = EventSchemaAdd(@, h, kind, a)]

(* EventContainerSchema.validate_event_label ... validate: the label is    *)
(* validated, then the EventSchema method of the same kind runs            *)
ContainerValidate(cs, h, kind, label, a) ==
    CASE kind = "event" -> validate_event(cs, h, a.event)
      [] kind = "events" -> EventContainerSchema_validate(cs, h, a.events)
      [] OTHER ->
            IF validate_event_label(cs, label) # "none"
            THEN validate_event_label(cs, label)
            ELSE IF kind = "event_label"
            THEN "none"
            ELSE EventSchemaValidate(cs[label], h, kind, a)

(* EventContainerSchema.is_valid_event_label ... is_valid_event: the       *)
(* validate_* call of the same kind with its schema violation caught       *)
ContainerIsValid(cs, h, kind, label, a) ==
    LET err == ContainerValidate(cs, h, kind, label, a)
    IN  IF err \in SchemaErrors \cup {"none"}
        THEN [err |-> "none", value |-> Some(err = "none")]
        ELSE [err |-> err, value |-> None]

(* EventContainerSchema.get_event_schema ... EventContainerSchema.         *)
(* get_object_frame_attribute_class: the label is validated, then the      *)
(* entry is asked; get_object_frame_attribute_schema asks the entry for    *)
(* get_object_attribute_schema                                             *)
ContainerGet(cs, h, kind, label, a) ==
    CASE kind = "event_schema" -> get_event_schema(cs, label)
      [] validate_event_label(cs, label) # "none" ->
            [err |-> validate_event_label(cs, label), value |-> None]
      [] kind = "object_frame_attribute_schema" ->
            EventSchemaGet(cs[label], h, "object_attribute_schema", a)
      [] OTHER -> EventSchemaGet(cs[label], h, kind, a)

(* EventContainerSchema.has_event_label ... EventContainerSchema.          *)
(* has_object_frame_attribute: the queries about attributes answer False   *)
(* for a label the schema does not have, those about objects validate the  *)
(* label; has_object_frame_attribute calls the has_frame_attribute of the  *)
(* entry, which takes one argument, with two                               *)
ContainerHas(cs, h, kind, label, a) ==
    CASE kind = "event_label" ->
            [err |-> "none", value |-> Some(label \in DOMAIN cs)]
      [] kind \in {"event_attribute", "frame_attribute"} ->
            [err |-> "none",
             value |-> Some(label \in DOMAIN cs
                               /\ EventSchemaHas(cs[label], h, kind, a))]
      [] validate_event_label(cs, label) # "none" ->
            [err |-> validate_event_label(cs, label), value |-> None]
      [] kind = "object_frame_attribute" ->
            [err |-> "TypeError", value |-> None]
      [] OTHER ->
            [err |-> "none",
             value |-> Some(EventSchemaHas(cs[label], h, kind, a))]

(* EventContainerSchema.build_active_schema *)
build_active_schema(h, events) ==
    EventContainerSchema_add_events(<<>>, h, events)

(* EventContainerSchema.validate_subset_of_schema: the error of a label    *)
(* that is missing from the other schema or whose entry is not a subset    *)
EventContainerSchema_validate_subset_of_schema(cs, other) ==
    LET Check(label) ==
            IF label \notin DOMAIN other
            THEN "EventContainerSchemaError"
            ELSE EventSchema_validate_subset_of_schema(
                     cs[label], get_event_schema(other, label).value[1])
        bad == {label \in DOMAIN cs : Check(label) # "none"}
    IN  IF bad = {} THEN "none" ELSE Check(CHOOSE label \in bad : TRUE)

(* A merge_event_schema that creates the entry and merges nothing *)
merge_event_schema_created(cs, es) ==
    [schema |-> _ensure_has_event_label(cs, es.label), err |-> "none"]

(* EventContainerSchema.merge_event_schema *)
merge_event_schema(cs, es) ==
    LET cs1 == _ensure_has_event_label(cs, es.label)
        r == EventSchema_merge_schema(cs1[es.label], es)
    IN  [schema |-> [cs1 EXCEPT ![es.label] = r.schema], err |-> r.err]

(* EventContainerSchema.merge_schema *)
RECURSIVE EventContainerSchema_merge_schema(_, _, _)
EventContainerSchema_merge_schema(cs, other, todo) ==
    IF todo = {}
    THEN cs
    ELSE LET label == CHOOSE l \in todo : TRUE
         IN  EventContainerSchema_merge_schema(
                 merge_event_schema(cs, other[label]).schema,
                 other, todo \ {label})

----------------------------------------------------------------------------
(* Calls on a schema *)

(* The call made on the schema, the first one: cs is the schema after it, *)
(* r the error it raised and the value it returned                         *)
SchemaCall(cs, r, call) ==
    /\ schema' = cs
    /\ ret' = [NoRet EXCEPT !.kind = "value", !.value = r.value]
    /\ op' = [call EXCEPT !.err = r.err]
    /\ UNCHANGED <<ev, heap, steps>>

(* The event labels a method of the given kind is called with *)
LabelsOf(kind) ==
    IF kind \in {"event", "events"} THEN {None} ELSE SchemaLabels

(* schema.add_event_label(label), schema.add_event_attribute(label, attr), *)
(* ..., schema.add_objects(label, objects), schema.add_event(event),       *)
(* schema.add_events(events)                                               *)
CallContainerAdd ==
    /\ ret.kind = "none"
    /\ \E kind \in Kinds \cup {"event_label", "event", "events"} :
          \E label \in LabelsOf(kind), a \in ArgsOf(kind) :
              SchemaCall(ContainerAdd(schema, heap, kind, label, a),
                         [err |-> "none", value |-> None],
                         [NoArgs EXCEPT !.name = "add", !.method = kind,
                                        !.label = label, !.arg = Some(a)])

(* schema.validate_event_label(label), ..., schema.validate_object(label,  *)
(* obj), schema.validate_event(event), schema.validate(events)             *)
CallContainerValidate ==
    /\ ret.kind = "none"
    /\ \E kind \in (Kinds \ {"objects"}) \cup {"event_label", "event",
                                               "events"} :
          \E label \in LabelsOf(kind), a \in ArgsOf(kind) :
              SchemaCall(schema,
                         [err |-> ContainerValidate(schema, heap, kind,
                                                    label, a),
                          value |-> None],
                         [NoArgs EXCEPT !.name = "validate", !.method = kind,
                                        !.label = label, !.arg = Some(a)])

(* schema.is_valid_event_label(label), ..., schema.is_valid_object(label,  *)
(* obj), schema.is_valid_event(event)                                      *)
CallContainerIsValid ==
    /\ ret.kind = "none"
    /\ \E kind \in (Kinds \ {"objects"}) \cup {"event_label", "event"} :
          \E label \in LabelsOf(kind), a \in ArgsOf(kind) :
              SchemaCall(schema,
                         ContainerIsValid(schema, heap, kind, label, a),
                         [NoArgs EXCEPT !.name = "is_valid", !.method = kind,
                                        !.label = label, !.arg = Some(a)])

(* schema.get_event_schema(label), schema.get_event_attribute_schema(      *)
(* label, attr_name), ..., schema.get_object_frame_attribute_class(label,  *)
(* obj_label, attr_name)                                                   *)
CallContainerGet ==
    /\ ret.kind = "none"
    /\ \E kind \in GetKinds \cup {"event_schema"}, label \in SchemaLabels :
          \E a \in ArgsOf(IF kind = "event_schema"
                          THEN kind ELSE "object_attribute") :
              SchemaCall(schema, ContainerGet(schema, heap, kind, label, a),
                         [NoArgs EXCEPT !.name = "get", !.method = kind,
                                        !.label = label, !.arg = Some(a)])

(* schema.has_event_label(label), schema.has_event_attribute(label,        *)
(* attr_name), ..., schema.has_object_frame_attribute(label, obj_label,    *)
(* attr_name)                                                              *)
CallContainerHas ==
    /\ ret.kind = "none"
    /\ \E kind \in {"event_label", "event_attribute", "frame_attribute",
                     "object_label", "object_attribute",
                     "object_frame_attribute"},
          label \in SchemaLabels :
          \E a \in ArgsOf(IF kind = "event_label"
                          THEN kind ELSE "object_attribute") :
              SchemaCall(schema, ContainerHas(schema, heap, kind, label, a),
                         [NoArgs EXCEPT !.name = "has", !.method = kind,
                                        !.label = label, !.arg = Some(a)])

(* EventContainerSchema.build_active_schema(events): the caller keeps the  *)
(* schema it returns                                                       *)
CallBuildActiveSchema ==
    /\ ret.kind = "none"
    /\ \E a \in ArgsOf("events") :
          SchemaCall(build_active_schema(heap, a.events),
                     [err |-> "none", value |-> None],
                     [NoArgs EXCEPT !.name = "build_active_schema",
                                    !.arg = Some(a.events)])

(* schema.schema[label].is_valid_event_attribute(attr), ... on an entry *)
CallEventSchemaIsValid ==
    /\ ret.kind = "none"
    /\ \E label \in DOMAIN schema, kind \in Kinds \ {"objects"} :
          \E a \in ArgsOf(kind) :
              SchemaCall(schema,
                         EventSchemaIsValid(schema[label], heap, kind, a),
                         [NoArgs EXCEPT !.name = "EventSchema.is_valid",
                                        !.method = kind, !.label = label,
                                        !.arg = Some(a)])

(* The schemas handed to an entry: any EventSchema, the entries included *)
OtherSchemas == EventSchemas \cup Range(schema)

(* schema.schema[label].validate_subset_of_schema(other) on an entry *)
CallEventSchemaSubset ==
    /\ ret.kind = "none"
    /\ \E label \in DOMAIN schema, other \in OtherSchemas :
          SchemaCall(schema,
                     [err |-> EventSchema_validate_subset_of_schema(
                                  schema[label], other),
                      value |-> None],
                     [NoArgs EXCEPT !.name = "EventSchema.validate_subset",
                                    !.label = label, !.schema = Some(other)])

(* schema.schema[label].merge_schema(other) on an entry *)
CallEventSchemaMerge ==
    /\ ret.kind = "none"
    /\ \E label \in DOMAIN schema, other \in OtherSchemas :
          LET r == EventSchema_merge_schema(schema[label], other)
          IN  SchemaCall([schema EXCEPT ![label] = r.schema],
                         [err |-> r.err, value |-> None],
                         [NoArgs EXCEPT !.name = "EventSchema.merge_schema",
                                        !.label = label,
                                        !.schema = Some(other)])

(* schema.merge_event_schema(event_schema) *)
CallMergeEventSchema ==
    /\ ret.kind = "none"
    /\ \E es \in EventSchemas :
          LET r == merge_event_schema(schema, es)
          IN  SchemaCall(r.schema, [err |-> r.err, value |-> None],
                         [NoArgs EXCEPT !.name = "merge_event_schema",
                                        !.schema = Some(es)])

(* The schemas an EventContainerSchema is built with: each label is        *)
(* missing, has an empty entry or has an entry with content                *)
FullEventSchema(label) ==
    NewEventSchema(label, AttrValues, {[name |-> "color", value |-> "red"]},
                   [l \in {"car"} |->
                       [attrs |-> {[name |-> "color", value |-> "red"]},
                        frames |-> {[name |-> "size", value |-> "big"]}]])

InitSchemas ==
    {cs \in UNION {[S -> {NewEventSchema(l, {}, {}, <<>>) : l \in SchemaLabels}
                             \cup {FullEventSchema(l) : l \in SchemaLabels}] :
                      S \in SUBSET SchemaLabels} :
        \A l \in DOMAIN cs : cs[l].label = l}

(* schema.validate_subset_of_schema(other) *)
CallContainerSubset ==
    /\ ret.kind = "none"
    /\ \E other \in InitSchemas :
          SchemaCall(schema,
                     [err |-> EventContainerSchema_validate_subset_of_schema(
                                  schema, other),
                      value |-> None],
                     [NoArgs EXCEPT !.name = "validate_subset",
                                    !.arg = Some(other)])

(* schema.merge_schema(other) *)
CallContainerMerge ==
    /\ ret.kind = "none"
    /\ \E other \in InitSchemas :
          SchemaCall(EventContainerSchema_merge_schema(schema, other,
                                                       DOMAIN other),
                     [err |-> "none", value |-> None],
                     [NoArgs EXCEPT !.name = "merge_schema",
                                    !.arg = Some(other)])

(* EventContainerSchema(schema) next to a VideoEvent(label, attrs,         *)
(* objects, frames) and the DetectedEvent instances of the caller          *)
InitSchema ==
    \E label \in EventLabels, cs \in InitSchemas,
       frames \in {f \in InitFrames : DOMAIN f \subseteq {1}} :
        /\ ev = [NewVideoEvent(label, None, None, None, None, frames)
                    EXCEPT !.attrs = <<AttrId(1)>>,
                           !.objects = <<[label |-> "w", support |-> Frames],
                                         [label |-> "v", support |-> {1}]>>]
        /\ heap = InitHeap
        /\ ret = NoRet
        /\ op = NoArgs
        /\ steps = 0
        /\ schema = cs

NextSchema ==
    \/ CallContainerAdd
    \/ CallContainerValidate
    \/ CallContainerIsValid
    \/ CallContainerGet
    \/ CallContainerHas
    \/ CallBuildActiveSchema
    \/ CallEventSchemaIsValid
    \/ CallEventSchemaSubset
    \/ CallEventSchemaMerge
    \/ CallMergeEventSchema
    \/ CallContainerSubset
    \/ CallContainerMerge

SpecSchema == InitSchema /\ [][NextSchema]_vars

----------------------------------------------------------------------------
(* Properties of the schemas (checked under SpecSchema) *)

(* C14: validate_subset_of_schema is a partial-order check: a schema is a  *)
(* subset of itself; if a is a subset of b and b of c then a is a subset   *)
(* of c; on EventSchemas it fails whenever the two labels differ, on       *)
(* EventContainerSchemas whenever a label of the receiver is missing from  *)
(* the other schema.                                                       *)
C14_SubsetIsPartialOrder ==
    /\ op.name = "EventSchema.validate_subset" =>
          LET a == schema[op.label]
              b == Val(op.schema)
          IN  /\ a = b => op.err = "none"
              /\ a.label # b.label => op.err \in SchemaErrors
              /\ op.err = "none" =>
                    \A c \in OtherSchemas :
                        EventSchema_validate_subset_of_schema(b, c) = "none"
                            => EventSchema_validate_subset_of_schema(a, c)
                                  = "none"
    /\ op.name = "validate_subset" =>
          LET b == Val(op.arg)
          IN  /\ schema = b => op.err = "none"
              /\ ~(DOMAIN schema \subseteq DOMAIN b)
                    => op.err \in SchemaErrors
              /\ op.err = "none" =>
                    \A c \in InitSchemas :
                        EventContainerSchema_validate_subset_of_schema(b, c)
                                = "none"
                            => EventContainerSchema_validate_subset_of_schema(
                                   schema, c) = "none"

C14_Witness ==
    /\ op.name = "EventSchema.validate_subset"
    /\ op.err = "none"
    /\ schema[op.label] # Val(op.schema)
    /\ \E c \in OtherSchemas :
          /\ c # Val(op.schema)
          /\ EventSchema_validate_subset_of_schema(Val(op.schema), c) = "none"

(* C15: EventSchema.merge_schema(other) raises a schema violation and      *)
(* leaves the receiver unchanged when the labels differ; when they match   *)
(* the receiver's event-attribute, frame-attribute and object schemas      *)
(* become the unions with those of other.  The merge is commutative and    *)
(* idempotent.                                                             *)
C15_MergeIsUnion ==
    [][op'.name = "EventSchema.merge_schema" =>
        LET label == op'.label
            a == schema[label]
            b == Val(op'.schema)
            m == schema'[label]
        IN  /\ DOMAIN schema' = DOMAIN schema
            /\ \A l \in DOMAIN schema \ {label} : schema'[l] = schema[l]
            /\ IF a.label # b.label
               THEN op'.err \in SchemaErrors /\ m = a
               ELSE /\ op'.err = "none"
                    /\ m.label = a.label
                    /\ m.attrs = a.attrs \cup b.attrs
                    /\ m.frames = a.frames \cup b.frames
                    /\ DOMAIN m.objects = DOMAIN a.objects \cup DOMAIN b.objects
                    /\ \A l \in DOMAIN m.objects :
                          /\ m.objects[l].attrs =
                                ObjectSchemaOf(a.objects, l).attrs
                                    \cup ObjectSchemaOf(b.objects, l).attrs
                          /\ m.objects[l].frames =
                                ObjectSchemaOf(a.objects, l).frames
                                    \cup ObjectSchemaOf(b.objects, l).frames
                    /\ m = EventSchema_merge_schema(b, a).schema
                    /\ EventSchema_merge_schema(m, b).schema = m
                    /\ a = b => m = a
      ]_vars

C15_Witness ==
    /\ op.name = "EventSchema.merge_schema"
    /\ op.err = "none"
    /\ schema[op.label] # Val(op.schema)
    /\ schema[op.label] # FullEventSchema(op.label)
    /\ schema[op.label].objects # Val(op.schema).objects
    /\ Val(op.schema).frames # {}

(* C16: for every container C of Detection Records or of Temporal          *)
(* Aggregates, events with a null label included,                          *)
(* EventContainerSchema.build_active_schema(C).validate(C) completes       *)
(* without error, and building the schema leaves C unchanged.              *)
C16_ActiveSchemaValidatesItsEvents ==
    [][op'.name = "build_active_schema" =>
        /\ op'.err = "none"
        /\ EventContainerSchema_validate(schema', heap', Val(op'.arg))
              = "none"
        /\ ev' = ev
        /\ heap' = heap
      ]_vars

C16_Witness ==
    /\ op.name = "build_active_schema"
    /\ Val(op.arg) = <<VideoRef(ev)>>
    /\ ev.label = None
    /\ \E rec \in Range(ev.frames) : heap[rec].objects # <<>>
    /\ None \in DOMAIN schema

(* C17: the schema returned by build_active_schema describes exactly what  *)
(* is present: it has an entry for a label iff some event of the container *)
(* carries it, and the entry holds every event-level attribute, every      *)
(* frame-level attribute and every object label of those events, objects   *)
(* of stored Detection Records and temporal objects of the aggregates      *)
(* alike, and nothing else.                                                *)
C17_ActiveSchemaIsExact ==
    op.name = "build_active_schema" =>
        LET events == Val(op.arg)
            With(label) ==
                {events[i] : i \in {j \in DOMAIN events :
                                       LabelOf(heap, events[j]) = label}}
            Records(event) ==
                IF event.type = "DetectedEvent"
                THEN {event.id} ELSE Range(Val(event.event).frames)
            EventAttrs(event) ==
                IF event.type = "DetectedEvent"
                THEN {} ELSE {heap[a] : a \in Range(Val(event.event).attrs)}
            TemporalObjects(event) ==
                IF event.type = "DetectedEvent"
                THEN {}
                ELSE {o.label : o \in Range(Val(event.event).objects)}
        IN  /\ DOMAIN schema =
                  {LabelOf(heap, events[i]) : i \in DOMAIN events}
            /\ \A label \in DOMAIN schema :
                  /\ schema[label].label = label
                  /\ schema[label].attrs =
                        UNION {EventAttrs(e) : e \in With(label)}
                  /\ schema[label].frames =
                        UNION {{heap[a] : a \in Range(heap[rec].attrs)} :
                                  rec \in UNION {Records(e) :
                                                    e \in With(label)}}
                  /\ DOMAIN schema[label].objects =
                        UNION {{heap[o].label : o \in Range(heap[rec].objects)} :
                                  rec \in UNION {Records(e) :
                                                    e \in With(label)}}
                            \cup UNION {TemporalObjects(e) : e \in With(label)}

(* C18: in an EventContainerSchema every add_* call that names an event    *)
(* label the schema does not have creates an empty EventSchema entry for   *)
(* it before adding to it, while every validate_* call and every get_*     *)
(* accessor that names such a label raises a schema violation and leaves   *)
(* the labels of the schema as they were.                                  *)
C18_AddCreatesValidateRejects ==
    [][LET a == Val(op'.arg)
           label == CASE op'.method = "event" -> LabelOf(heap, a.event)
                      [] OTHER -> op'.label
       IN  /\ (op'.name = "add" /\ op'.method # "events"
                  /\ label \notin DOMAIN schema) =>
                /\ op'.err = "none"
                /\ DOMAIN schema' = DOMAIN schema \cup {label}
                /\ \A l \in DOMAIN schema : schema'[l] = schema[l]
                /\ schema'[label] =
                      CASE op'.method = "event_label" ->
                              NewEventSchema(label, {}, {}, <<>>)
                        [] op'.method = "event" ->
                              EventSchema_add_event(
                                  NewEventSchema(label, {}, {}, <<>>),
                                  heap, a.event).schema
                        [] OTHER ->
                              EventSchemaAdd(
                                  NewEventSchema(label, {}, {}, <<>>),
                                  heap, op'.method, a)
           /\ (op'.name \in {"get", "validate"} /\ op'.method # "events"
                  /\ label \notin DOMAIN schema) =>
                /\ op'.err \in SchemaErrors
                /\ schema' = schema
      ]_vars

C18_Witness ==
    /\ op.name = "add"
    /\ op.method = "object_frame_attribute"
    /\ op.label = None
    /\ DOMAIN schema = {None}
    /\ schema[None] =
          EventSchemaAdd(NewEventSchema(None, {}, {}, <<>>), heap,
                         op.method, Val(op.arg))

(* C19: every is_valid_* predicate of EventSchema and                      *)
(* EventContainerSchema returns a boolean and never propagates an error:   *)
(* True exactly when the validate_* call of the same kind would complete,  *)
(* False exactly when it would raise a schema violation.                   *)
C19_IsValidNeverRaises ==
    /\ op.name = "EventSchema.is_valid" =>
          /\ op.err = "none"
          /\ ret.value =
                Some(EventSchemaValidate(schema[op.label], heap, op.method,
                                         Val(op.arg)) = "none")
    /\ op.name = "is_valid" =>
          /\ op.err = "none"
          /\ ret.value =
                Some(ContainerValidate(schema, heap, op.method, op.label,
                                       Val(op.arg)) = "none")

----------------------------------------------------------------------------
(* Serialization                                                           *)
(*                                                                         *)
(* A dictionary is a function from the keys it has.  The event rebuilt by  *)
(* from_dict owns new instances throughout, so it is given by its values:  *)
(* a container is the sequence of its elements, a frame maps to its record *)

(* str(frame_number) for the keys of a serialized dictionary, inverted by  *)
(* int(fn) in VideoEvent._from_dict                                        *)
FrameKeys == <<"1", "2", "3", "4">>

(* DetectedEvent.serialize: the fields DetectedEvent.attributes lists *)
DetectedEvent_serialize(h, id) ==
    LET self == h[id]
        _noneable_attrs == {"label", "confidence", "index", "frame_number"}
        _attrs == {"type"}
                     \cup {a \in _noneable_attrs : self[a] # None}
                     \cup (IF self.attrs # <<>> THEN {"attrs"} ELSE {})
                     \cup (IF self.objects # <<>> THEN {"objects"} ELSE {})
    IN  [a \in _attrs |->
           CASE a = "type" -> "eta.core.events.DetectedEvent"
             [] a = "attrs" -> [attrs |-> Deref(h, self.attrs)]
             [] a = "objects" -> [objects |-> Deref(h, self.objects)]
             [] OTHER -> Val(self[a])]

(* A from_dict that does not read the label *)
DetectedEvent_from_dict_unlabelled(d) ==
    LET attrs == IF Get(d, "attrs") # None THEN d["attrs"].attrs ELSE <<>>
        objects == IF Get(d, "objects") # None
                   THEN d["objects"].objects ELSE <<>>
    IN  [NewDetectedEvent(Get(d, "frame_number")) EXCEPT
            !.confidence = Get(d, "confidence"),
            !.index = Get(d, "index"),
            !.attrs = attrs,
            !.objects = objects]

(* DetectedEvent.from_dict *)
DetectedEvent_from_dict(d) ==
    LET attrs == IF Get(d, "attrs") # None THEN d["attrs"].attrs ELSE <<>>
        objects == IF Get(d, "objects") # None
                   THEN d["objects"].objects ELSE <<>>
    IN  [NewDetectedEvent(Get(d, "frame_number")) EXCEPT
            !.label = Get(d, "label"),
            !.confidence = Get(d, "confidence"),
            !.index = Get(d, "index"),
            !.attrs = attrs,
            !.objects = objects]

(* VideoEvent.serialize: the fields VideoEvent.attributes lists; the child *)
(* sets are written as lists, in the order the sets are iterated in        *)
VideoEvent_serialize(e, h, child_objects, child_events) ==
    LET _noneable_attrs == {"label", "confidence", "index", "uuid"}
        _attrs == {"type"}
                     \cup {a \in _noneable_attrs : e[a] # None}
                     \cup (IF e.support # None THEN {"support"} ELSE {})
                     \cup (IF e.attrs # <<>> THEN {"attrs"} ELSE {})
                     \cup (IF e.objects # <<>> THEN {"objects"} ELSE {})
                     \cup (IF e.frames # <<>> THEN {"frames"} ELSE {})
                     \cup (IF e.child_objects # {}
                           THEN {"child_objects"} ELSE {})
                     \cup (IF e.child_events # {}
                           THEN {"child_events"} ELSE {})
        ranges(S) == {r \in S \X S : /\ r[1]..r[2] \subseteq S
                                     /\ r[1] <= r[2]
                                     /\ r[1] - 1 \notin S
                                     /\ r[2] + 1 \notin S}
    IN  [a \in _attrs |->
           CASE a = "type" -> "eta.core.events.VideoEvent"
             [] a = "support" -> [ranges |-> ranges(Val(e.support))]
             [] a = "attrs" -> [attrs |-> Deref(h, e.attrs)]
             [] a = "objects" -> [objects |-> e.objects]
             [] a = "frames" ->
                   [fn \in {FrameKeys[f] : f \in DOMAIN e.frames} |->
                      DetectedEvent_serialize(
                          h, e.frames[CHOOSE f \in DOMAIN e.frames :
                                         FrameKeys[f] = fn])]
             [] a = "child_objects" -> child_objects
             [] a = "child_events" -> child_events
             [] OTHER -> Val(e[a])]

(* VideoEvent._from_dict *)
_from_dict(d) ==
    LET int(fn) == CHOOSE f \in DOMAIN FrameKeys : FrameKeys[f] = fn
        frozen == IF Get(d, "support") # None
                  THEN Some(UNION {r[1]..r[2] : r \in d["support"].ranges})
                  ELSE None
        frames == IF Get(d, "frames") # None
                  THEN [f \in {int(fn) : fn \in DOMAIN d["frames"]} |->
                          DetectedEvent_from_dict(d["frames"][FrameKeys[f]])]
                  ELSE <<>>
    IN  [NewVideoEvent(Get(d, "label"), Get(d, "confidence"), frozen,
                       Get(d, "index"), Get(d, "uuid"), frames) EXCEPT
            !.attrs = IF Get(d, "attrs") # None
                      THEN d["attrs"].attrs ELSE <<>>,
            !.objects = IF Get(d, "objects") # None
                        THEN d["objects"].objects ELSE <<>>,
            !.child_objects = IF Get(d, "child_objects") # None
                              THEN Range(d["child_objects"]) ELSE {},
            !.child_events = IF Get(d, "child_events") # None
                             THEN Range(d["child_events"]) ELSE {}]

(* VideoEvent.from_dict: the _from_dict of the class the type field names, *)
(* which DetectedEvent does not have                                       *)
VideoEvent_from_dict(d) ==
    LET event_cls == IF "type" \in DOMAIN d
                     THEN d["type"] ELSE "eta.core.events.VideoEvent"
    IN  IF event_cls = "eta.core.events.VideoEvent"
        THEN [err |-> "none", value |-> Some(_from_dict(d))]
        ELSE [err |-> "AttributeError", value |-> None]

(* VideoEvent.from_dict(event.serialize()) *)
CallVideoEventFromDict ==
    /\ ret.kind = "none"
    /\ \E child_objects \in [1..Cardinality(ev.child_objects) ->
                                ev.child_objects],
          child_events \in [1..Cardinality(ev.child_events) ->
                               ev.child_events] :
          /\ Range(child_objects) = ev.child_objects
          /\ Range(child_events) = ev.child_events
          /\ LET d == VideoEvent_serialize(ev, heap, child_objects,
                                           child_events)
                 r == VideoEvent_from_dict(d)
             IN  /\ ret' = [NoRet EXCEPT !.kind = "value", !.value = r.value]
                 /\ op' = [NoArgs EXCEPT !.name = "VideoEvent.from_dict",
                                         !.err = r.err, !.arg = Some(d)]
    /\ UNCHANGED <<ev, heap, steps, schema>>

(* DetectedEvent.from_dict(devent.serialize()), on an instance of the      *)
(* caller, stored by the event or not                                      *)
CallDetectedEventFromDict ==
    /\ ret.kind = "none"
    /\ \E devent \in DEventPool :
          LET d == DetectedEvent_serialize(heap, devent)
          IN  /\ ret' = [NoRet EXCEPT !.kind = "value",
                                      !.value = Some(DetectedEvent_from_dict(d))]
              /\ op' = [NoArgs EXCEPT !.name = "DetectedEvent.from_dict",
                                      !.id = devent, !.arg = Some(d)]
    /\ UNCHANGED <<ev, heap, steps, schema>>

(* VideoEvent(label, confidence, support, index, uuid, attrs, objects,     *)
(* frames, child_objects, child_events)                                    *)
InitSerial ==
    \E label \in EventLabels, confidence \in EventConfidences,
       index \in EventIndexes, sup \in Supports,
       uuid \in {None, Some("u1")},
       attrs \in {<<>>, <<AttrId(1), AttrId(2)>>},
       objects \in {<<>>, <<[label |-> "w", support |-> Frames],
                            [label |-> "v", support |-> {1}]>>},
       frames \in InitFrames,
       child_objects \in {{}, Uuids}, child_events \in {{}, {"u2"}} :
        Started([NewVideoEvent(label, confidence, sup, index, uuid, frames)
                    EXCEPT !.attrs = attrs, !.objects = objects,
                           !.child_objects = child_objects,
                           !.child_events = child_events])

NextSerial == CallVideoEventFromDict \/ CallDetectedEventFromDict

SpecSerial == InitSerial /\ [][NextSerial]_vars

----------------------------------------------------------------------------
(* Properties of the serialization (checked under SpecSerial) *)

(* C20: for a Detection Record or a Temporal Aggregate e, the serialized   *)
(* form of e lists the type and exactly the fields that are not null and   *)
(* not empty, the support only when it is frozen, and from_dict applied to *)
(* it gives an event with the field values of e: null fields stay null,    *)
(* empty attrs, objects, frames and child sets stay empty, the frame       *)
(* numbers and the child uuid sets are kept and a computed support stays   *)
(* computed.                                                               *)
C20_DictRoundTrip ==
    /\ op.name = "VideoEvent.from_dict" =>
          /\ op.err = "none"
          /\ DOMAIN Val(op.arg) =
                {"type"}
                   \cup {a \in {"label", "confidence", "index", "uuid",
                                "support"} : ev[a] # None}
                   \cup {a \in {"attrs", "objects", "frames"} :
                            ev[a] # <<>>}
                   \cup {a \in {"child_objects", "child_events"} :
                            ev[a] # {}}
          /\ ret.value = Some(EventView(ev, heap))
    /\ op.name = "DetectedEvent.from_dict" =>
          /\ DOMAIN Val(op.arg) =
                {"type"}
                   \cup {a \in {"label", "confidence", "index",
                                "frame_number"} : heap[op.id][a] # None}
                   \cup {a \in {"attrs", "objects"} :
                            heap[op.id][a] # <<>>}
          /\ ret.value = Some(RecordView(heap, op.id))

C20_Witness ==
    /\ op.name = "VideoEvent.from_dict"
    /\ ev.label = None
    /\ ev.support = None
    /\ ev.attrs = <<>>
    /\ DOMAIN ev.frames = Frames
    /\ ev.child_objects = Uuids
    /\ ev.child_events = {}
    /\ DOMAIN Val(op.arg) \cap {"label", "support", "attrs", "child_events",
                                "frames", "child_objects"}
          = {"frames", "child_objects"}
    /\ Val(ret.value).support = None
    /\ Val(ret.value).child_objects = Uuids

----------------------------------------------------------------------------
(* Sorting a container                                                     *)

(* etas.Container.sort_by: a stable sort of the elements by the attribute, *)
(* the elements whose attribute is None last in both directions            *)
sort_by(h, elements, attr, reverse) ==
    LET n == Len(elements)
        key(i) == h[elements[i]][attr]
        Before(i, j) ==
            CASE key(i) = None /\ key(j) = None -> i < j
              [] key(i) = None -> FALSE
              [] key(j) = None -> TRUE
              [] key(i) = key(j) -> i < j
              [] OTHER -> IF reverse
                          THEN Val(key(i)) > Val(key(j))
                          ELSE Val(key(i)) < Val(key(j))
        p == CHOOSE q \in [1..n -> 1..n] :
                /\ \A a, b \in 1..n : a # b => q[a] # q[b]
                /\ \A a, b \in 1..n : a < b => Before(q[a], q[b])
    IN  [a \in 1..n |-> elements[p[a]]]

(* A sort_by_confidence / sort_by_index / sort_by_frame_number that always *)
(* sorts in ascending order                                                *)
ContainerSortBy_ascending(h, elements, method, reverse) ==
    sort_by(h, elements, method, FALSE)

(* DetectedEventContainer.sort_by_confidence / sort_by_index /             *)
(* sort_by_frame_number, VideoEventContainer.sort_by_confidence /          *)
(* sort_by_index                                                           *)
ContainerSortBy(h, elements, method, reverse) ==
    sort_by(h, elements, method, reverse)

(* container.sort_by_confidence(reverse), container.sort_by_index(reverse) *)
(* and, on a DetectedEventContainer, container.sort_by_frame_number(       *)
(* reverse): the container is sorted in place                              *)
CallContainerSortBy ==
    /\ ret.kind = "none"
    /\ \E method \in {"confidence", "index", "frame_number"},
          reverse \in BOOLEAN :
          /\ method = "frame_number" => op.name = "DetectedEventContainer"
          /\ ret' = [NoRet EXCEPT
                        !.kind = "value",
                        !.value = Some(ContainerSortBy(heap, op.ids, method,
                                                       reverse))]
          /\ op' = [op EXCEPT !.name = @ \o ".sort_by", !.method = method,
                              !.reverse = reverse]
    /\ UNCHANGED <<ev, heap, steps, schema>>

(* DetectedEventContainer(events) or VideoEventContainer(events) of up to  *)
(* MaxLen events with their confidence, index and frame number             *)
InitSort ==
    \E cls \in {"DetectedEventContainer", "VideoEventContainer"},
       n \in 0..MaxLen :
       \E keys \in [1..n -> {<<None, None, None>>, <<Some(1), Some(7), None>>,
                             <<Some(9), Some(3), Some(1)>>,
                             <<Some(1), Some(3), Some(2)>>,
                             <<None, Some(7), Some(1)>>}] :
          /\ ev = NewVideoEvent(None, None, None, None, None, <<>>)
          /\ heap = [x \in {<<"E", 0, k>> : k \in 1..n} |->
                       IF cls = "DetectedEventContainer"
                       THEN [NewDetectedEvent(keys[x[3]][3]) EXCEPT
                                !.confidence = keys[x[3]][1],
                                !.index = keys[x[3]][2]]
                       ELSE NewVideoEvent(None, keys[x[3]][1], None,
                                          keys[x[3]][2], None, <<>>)]
          /\ ret = NoRet
          /\ op = [NoArgs EXCEPT !.name = cls,
                                 !.ids = [k \in 1..n |-> <<"E", 0, k>>]]
          /\ steps = 0
          /\ schema = <<>>

SpecSort == InitSort /\ [][CallContainerSortBy]_vars

----------------------------------------------------------------------------
(* Properties of sorting (checked under SpecSort) *)

(* C21: sorting a Detection Container or an Aggregate Container by         *)
(* confidence, index or frame number returns a permutation of the records  *)
(* in which the records that have the key are ordered by it, ascending or, *)
(* with reverse=True, descending, and in which every record whose key is   *)
(* null comes after all records that have it, in both directions.          *)
C21_SortPutsNullKeysLast ==
    op.name \in {"DetectedEventContainer.sort_by",
                 "VideoEventContainer.sort_by"} =>
        LET sorted == Val(ret.value)
            key(x) == heap[x][op.method]
        IN  /\ Len(sorted) = Len(op.ids)
            /\ Range(sorted) = Range(op.ids)
            /\ \A a, b \in DOMAIN sorted :
                  a < b =>
                     /\ key(sorted[a]) = None => key(sorted[b]) = None
                     /\ key(sorted[a]) # None /\ key(sorted[b]) # None =>
                           IF op.reverse
                           THEN Val(key(sorted[a])) >= Val(key(sorted[b]))
                           ELSE Val(key(sorted[a])) <= Val(key(sorted[b]))

C21_Witness ==
    /\ op.name = "VideoEventContainer.sort_by"
    /\ op.method = "confidence"
    /\ op.reverse
    /\ Len(op.ids) = 3
    /\ heap[op.ids[1]].confidence = Some(1)
    /\ heap[op.ids[2]].confidence = None
    /\ heap[op.ids[3]].confidence = Some(9)
    /\ Val(ret.value) = <<op.ids[3], op.ids[1], op.ids[2]>>

----------------------------------------------------------------------------
(* Properties of the rendered event (checked under SpecRender) *)

(* C22: render_framewise_labels() returns a new VideoEvent, the receiver   *)
(* staying as it was, whose frames are those render_all_frames() of the    *)
(* receiver returns and which has no event-level state: label, confidence, *)
(* index and uuid are null, the event-level attributes, the temporal       *)
(* objects and the child sets are empty and the support is not frozen.     *)
C22_RenderedEventHasOnlyFrames ==
    [][op'.name = "render_framewise_labels" =>
        LET e == Val(ret'.event)
            r == render_all_frames(ev, heap)
        IN  /\ EventView(ev', heap') = EventView(ev, heap)
            /\ Range(e.frames) \cap Range(ev.frames) = {}
            /\ FramesView(e, heap') =
                  [f \in DOMAIN r.map |-> RecordView(r.heap, r.map[f])]
            /\ e.label = None /\ e.confidence = None
            /\ e.index = None /\ e.uuid = None
            /\ e.attrs = <<>> /\ e.objects = <<>>
            /\ e.child_objects = {} /\ e.child_events = {}
            /\ e.support = None
      ]_vars

C22_Witness ==
    /\ op.name = "render_framewise_labels"
    /\ ev.label # None /\ ev.confidence # None /\ ev.index # None
    /\ ev.attrs # <<>> /\ ev.objects # <<>>
    /\ ev.support = Some({1})
    /\ DOMAIN ev.frames = Frames
    /\ DOMAIN Val(ret.event).frames = {1}

----------------------------------------------------------------------------
(* Properties of the schema queries (checked under SpecSchema) *)

(* C23: for an event label the EventContainerSchema has,                   *)
(* has_object_frame_attribute(event_label, obj_label, name) returns what   *)
(* has_object_frame_attribute(obj_label, name) of the entry returns, and   *)
(* get_object_frame_attribute_schema(event_label, obj_label, name) returns *)
(* the frame-level attribute schema of the object, the result of           *)
(* get_object_frame_attribute_schema(obj_label, name) of the entry.        *)
C23_ObjectFrameQueriesMirrorEntry ==
    /\ (op.name = "has" /\ op.method = "object_frame_attribute"
           /\ op.label \in DOMAIN schema) =>
          /\ op.err = "none"
          /\ ret.value =
                Some(EventSchemaHas(schema[op.label], heap, op.method,
                                    Val(op.arg)))
    /\ (op.name = "get" /\ op.method = "object_frame_attribute_schema"
           /\ op.label \in DOMAIN schema) =>
          LET r == EventSchemaGet(schema[op.label], heap, op.method,
                                  Val(op.arg))
          IN  op.err = r.err /\ ret.value = r.value

----------------------------------------------------------------------------
(* Properties of the stored frames (checked under Spec) *)

(* C24: in a VideoEvent created with empty frames, after any sequence of   *)
(* add_frame_attribute(s), add_object(s), add_detection and add_detections *)
(* every stored record has the frame number it is stored under and every   *)
(* object of the record of a frame has that frame number, also when the    *)
(* same record or object instance is added at more than one frame number.  *)
C24_FrameKeysMatch ==
    \A f \in DOMAIN ev.frames :
        /\ heap[ev.frames[f]].frame_number = Some(f)
        /\ \A o \in Range(heap[ev.frames[f]].objects) :
              heap[o].frame_number = Some(f)

----------------------------------------------------------------------------
(* Properties of validation and filtering together (checked under          *)
(* SpecFilter)                                                             *)

(* C25: if EventSchema.validate(event) succeeds for a Detection Record or  *)
(* a Temporal Aggregate, then event.filter_by_schema(schema) with default  *)
(* arguments completes without error and leaves the label, the attributes, *)
(* the objects and the stored frames of the event unchanged.               *)
C25_ValidEventIsNotFiltered ==
    [][/\ (op'.name = "VideoEvent.filter_by_schema"
              /\ EventSchema_validate(Val(op'.schema), heap, VideoRef(ev))
                    = "none") =>
             /\ op'.err = "none"
             /\ EventView(ev', heap') = EventView(ev, heap)
       /\ (op'.name = "DetectedEvent.filter_by_schema"
              /\ ~op'.allow_none_label
              /\ EventSchema_validate(Val(op'.schema), heap,
                                      DetectedRef(op'.id)) = "none") =>
             /\ op'.err = "none"
             /\ RecordView(heap', op'.id) = RecordView(heap, op'.id)
      ]_vars

----------------------------------------------------------------------------
(* Properties of rendering a rendered event (checked under SpecRender) *)

(* The event render_framewise_labels returned as the receiver of a further *)
(* call: its records, attributes and objects are stored instances          *)
AsReceiver(e, h) ==
    LET rec(f) == h[e.frames[f]]
        attrs(f) == [i \in DOMAIN rec(f).attrs |-> <<"A", f, i>>]
        objects(f) == [i \in DOMAIN rec(f).objects |-> <<"O", f, i>>]
        ids == {FrameId(f) : f \in DOMAIN e.frames}
                  \cup UNION {Range(attrs(f)) \cup Range(objects(f)) :
                                 f \in DOMAIN e.frames}
    IN  [ev |-> [e EXCEPT !.frames = [f \in DOMAIN e.frames |-> FrameId(f)]],
         heap |-> [x \in ids |->
                     CASE x[1] = "F" ->
                             [rec(x[2]) EXCEPT !.attrs = attrs(x[2]),
                                               !.objects = objects(x[2])]
                       [] x[1] = "A" -> h[rec(x[2]).attrs[x[3]]]
                       [] x[1] = "O" -> h[rec(x[2]).objects[x[3]]]]]

(* C26: for a VideoEvent e with a frozen or a computed support, the        *)
(* computed support of e.render_framewise_labels() is the support of e.    *)
C26_RenderingKeepsSupport ==
    op.name = "render_framewise_labels" =>
        /\ ~is_support_frozen(Val(ret.event))
        /\ _compute_support(Val(ret.event)) = support(ev)
        /\ support(Val(ret.event)) = support(ev)

C26_Witness ==
    /\ op.name = "render_framewise_labels"
    /\ ev.support = None
    /\ DOMAIN ev.frames = {2}
    /\ \E i \in DOMAIN ev.objects : ev.objects[i].support = {1}
    /\ \A i \in DOMAIN ev.objects : ev.objects[i].support = {1}
    /\ support(Val(ret.event)) = {1, 2}

(* C27: rendering the rendered event again gives the same frames:          *)
(* e.render_framewise_labels().render_framewise_labels().frames has the    *)
(* keys of e.render_framewise_labels().frames and, for each key, a record  *)
(* with the same label, confidence, index, attributes and objects.         *)
C27_RenderingIsIdempotent ==
    op.name = "render_framewise_labels" =>
        LET once == AsReceiver(Val(ret.event), heap)
            twice == render_all_frames(once.ev, once.heap)
        IN  /\ FramesView(once.ev, once.heap)
                  = FramesView(Val(ret.event), heap)
            /\ [f \in DOMAIN twice.map |->
                   RecordView(twice.heap, twice.map[f])]
                  = FramesView(Val(ret.event), heap)

C27_Witness ==
    /\ op.name = "render_framewise_labels"
    /\ ev.label # None
    /\ ev.attrs # <<>>
    /\ ev.objects # <<>>
    /\ ev.support = None
    /\ \E f \in DOMAIN ret.frames \cap DOMAIN ev.frames :
          /\ heap[ev.frames[f]].objects # <<>>
          /\ Len(heap[ret.frames[f]].objects)
                > Len(heap[ev.frames[f]].objects)
          /\ Len(heap[ret.frames[f]].attrs) > Len(heap[ev.frames[f]].attrs)

(* C28: the records one render_all_frames() call returns are independent   *)
(* of each other: the inherited event-level attributes of the record of    *)
(* one frame are not the instances of those of the record of another       *)
(* frame, so a change of an attribute of one rendered record changes no    *)
(* other rendered record.                                                  *)
C28_RenderedRecordsAreIndependent ==
    [][(op.name = "render_all_frames" /\ op'.name = "mutate_returned") =>
        /\ \A f, g \in DOMAIN ret.frames :
              f # g => Range(heap[ret.frames[f]].attrs)
                          \cap Range(heap[ret.frames[g]].attrs) = {}
        /\ Cardinality({f \in DOMAIN ret.frames :
                           RecordView(heap', ret.frames[f])
                              # RecordView(heap, ret.frames[f])}) <= 1
      ]_vars

----------------------------------------------------------------------------
(* Properties of merging (checked under SpecSchema) *)

----------------------------------------------------------------------------
(* A sequence of calls on a schema that starts empty *)

(* The caller is done with what the call returned and goes on to the next *)
(* call, of up to MaxSteps calls                                           *)
CallerContinues ==
    /\ ret.kind = "value"
    /\ steps < MaxSteps
    /\ steps' = steps + 1
    /\ ret' = NoRet
    /\ op' = [NoArgs EXCEPT !.name = "continue"]
    /\ UNCHANGED <<ev, heap, schema>>

(* EventContainerSchema(), before the first call, next to a VideoEvent     *)
(* with a stored record                                                    *)
InitEmptySchema ==
    /\ ev = [NewVideoEvent(Some("E"), None, None, None, None,
                           [f \in {1} |-> DEventId(2)])
                EXCEPT !.attrs = <<AttrId(1)>>,
                       !.objects = <<[label |-> "w", support |-> Frames],
                                     [label |-> "v", support |-> {1}]>>]
    /\ heap = InitHeap
    /\ ret = NoRet
    /\ op = NoArgs
    /\ steps = 1
    /\ schema = <<>>

NextLabels ==
    \/ CallContainerAdd
    \/ CallMergeEventSchema
    \/ CallContainerMerge
    \/ CallEventSchemaMerge
    \/ CallerContinues

SpecLabels == InitEmptySchema /\ [][NextLabels]_vars

(* C30: starting from an empty EventContainerSchema, after any sequence of *)
(* add_*, merge_event_schema and merge_schema operations, failing ones     *)
(* included, every entry schema[L] has the label L, and no operation       *)
(* removes a label from the schema.                                        *)
C30_EntriesCarryTheirKey ==
    [][/\ \A L \in DOMAIN schema' : schema'[L].label = L
       /\ DOMAIN schema \subseteq DOMAIN schema'
      ]_vars

C30_Witness ==
    /\ steps = MaxSteps
    /\ op.name = "EventSchema.merge_schema"
    /\ op.err # "none"
    /\ DOMAIN schema = {None, Some("E")}
    /\ schema[None].attrs # {}
    /\ schema[Some("E")].objects # <<>>
====
